---- MODULE Spec2Model ----
(***************************************************************************)
(* CoderScan: the OCR capture session (MultiBarcodeScanner), the App shell *)
(* that mounts it (AppContent) and the saved-scan store                    *)
(* (SavedScansProvider).  Strings are sequences of one-character strings,  *)
(* so that normalizeText, trim and includes are computed, not assumed.     *)
(* Presentation-only state (zoom, pinch, panel collapsed, image size, the   *)
(* bounds an entry carries for the overlay) is left out: no handler reads  *)
(* it to decide what it does to the session.  Every photo the camera takes *)
(* has the uri PhotoUri; a stored image has the uri of its scan.           *)
(***************************************************************************)
EXTENDS Integers, Sequences, FiniteSets, TLC

\* ------------------------------------------------------------------ bounds
MaxLines == 2
MaxAnalyses == 2
MaxSaveCalls == 2
MaxLen == 3
MaxLive == 2
MaxTicks == 1
MaxWrites == 2

\* ----------------------------------------------------------------- strings
LowerCaseLetters == <<"a","b","c","d","e","f","g","h","i","j","k","l","m",
                      "n","o","p","q","r","s","t","u","v","w","x","y","z">>

UpperCaseLetters == <<"A","B","C","D","E","F","G","H","I","J","K","L","M",
                      "N","O","P","Q","R","S","T","U","V","W","X","Y","Z">>

isWhitespace(c) == c \in {" ", "\t", "\n"}

toUpperCaseChar(c) ==
  IF \E i \in 1..26 : LowerCaseLetters[i] = c
  THEN UpperCaseLetters[CHOOSE i \in 1..26 : LowerCaseLetters[i] = c]
  ELSE c

toLowerCaseChar(c) ==
  IF \E i \in 1..26 : UpperCaseLetters[i] = c
  THEN LowerCaseLetters[CHOOSE i \in 1..26 : UpperCaseLetters[i] = c]
  ELSE c

toUpperCase(s) == [i \in 1..Len(s) |-> toUpperCaseChar(s[i])]

toLowerCase(s) == [i \in 1..Len(s) |-> toLowerCaseChar(s[i])]

\* String.prototype.trim
RECURSIVE trimStart(_)
trimStart(s) ==
  IF s # <<>> /\ isWhitespace(Head(s)) THEN trimStart(Tail(s)) ELSE s

RECURSIVE trimEnd(_)
trimEnd(s) ==
  IF s # <<>> /\ isWhitespace(s[Len(s)])
  THEN trimEnd(SubSeq(s, 1, Len(s) - 1))
  ELSE s

trim(s) == trimEnd(trimStart(s))

\* value.replace(/\s+/g, " "): every maximal run of whitespace becomes " "
RECURSIVE collapseWhitespace(_)
collapseWhitespace(s) ==
  IF s = <<>> THEN <<>>
  ELSE IF isWhitespace(Head(s))
       THEN <<" ">> \o collapseWhitespace(trimStart(s))
       ELSE <<Head(s)>> \o collapseWhitespace(Tail(s))

\* String.prototype.includes
includes(s, sub) ==
  \E i \in 1..(Len(s) - Len(sub) + 1) : SubSeq(s, i, i + Len(sub) - 1) = sub

normalizeText(value) == toUpperCase(trim(collapseWhitespace(value)))

Digits == {"0","1","2","3","4","5","6","7","8","9"}

\* [a-zA-Z0-9]
isAlphanumeric(c) ==
  \/ c \in Digits
  \/ \E i \in 1..26 : LowerCaseLetters[i] = c \/ UpperCaseLetters[i] = c

\* [a-z0-9]
isLowerCaseAlphanumeric(c) ==
  c \in Digits \/ \E i \in 1..26 : LowerCaseLetters[i] = c

\* mutant: the character class forgets A-Z
normalizeValueWithoutUpperCase(value) ==
  toUpperCase(SelectSeq(value, isLowerCaseAlphanumeric))

\* normalizeValue of the barcode scanner: value.replace(/[^a-zA-Z0-9]/g, "")
\* upper-cased ("" for a missing value, here the empty string)
normalizeValue(value) == toUpperCase(SelectSeq(value, isAlphanumeric))

\* ------------------------------------------------------------- input texts
SerialNumberLine == <<"S","e","r","i","a","l"," ","N","u","m","b","e","r">>

ValueLine == <<"X","Q","-","4","4","7","1">>

\* the same value as the recognizer may also report it: padded, lower case
ValueLineVariant == <<" ","x","q","-","4","4","7","1">>

NoLine == <<"N","o",".">>

Lines == {SerialNumberLine, ValueLine, ValueLineVariant, NoLine}

\* what the user types into the edit box (the modal passes draftText.trim())
EditTexts == {trim(ValueLineVariant)}

\* single lines that exercise each test of processLine
SerialNumberValueLine ==
  <<"S","e","r","i","a","l"," ","N","u","m","b","e","r",":"," ","1","2","3","4","5">>

SerialValueLine == <<"S","e","r","i","a","l",":"," ","7">>

ShortLine == <<"a","b">>

SnLine == <<"S","N","-","8","8","2","1","3">>

BlankLine == <<" "," ">>

FilterLines == {NoLine, SerialNumberValueLine, SerialValueLine, ShortLine,
                SnLine, BlankLine, <<>>}

AllLines == Lines \cup FilterLines

Texts == AllLines \cup {trim(l) : l \in AllLines} \cup EditTexts

\* normalizeText and trim, tabulated once over the texts that occur:
\* keyOf(t) = normalizeText(t) and trimOf(t) = trim(t)
normalizeTextTable == [t \in Texts |-> normalizeText(t)]

keyOf(value) == normalizeTextTable[value]

trimTable == [t \in Texts |-> trim(t)]

trimOf(value) == trimTable[value]

SeqsUpTo(S, n) == UNION {[1..k -> S] : k \in 0..n}

\* barcode payloads: a code, the same code as another label prints it, and
\* the value an OCR line can also carry
Abc == <<"A","B","C","1","2","3">>

AbcDashed == <<"a","b","c","-","1","2","3">>

Payloads == {Abc, AbcDashed, ValueLine}

\* what the recognizer may return for the photo taken to corroborate a barcode
CorroborationOutputs ==
  {<<>>, <<ValueLine>>, <<Abc, ValueLine>>, <<ShortLine, SnLine>>}

BarcodeTexts == Payloads \cup {<<>>, ShortLine, SnLine}

\* normalizeValue, tabulated once over the texts of the barcode scanner
normalizeValueTable == [t \in BarcodeTexts |-> normalizeValue(t)]

valueKey(v) == normalizeValueTable[v]

\* the strings the normalizations are applied to: up to MaxLen characters,
\* letters of both cases, a digit, two kinds of whitespace and punctuation
Alphabet == {"a", "Z", "7", " ", "\t", "-"}

Strings == SeqsUpTo(Alphabet, MaxLen)

\* spec section 8, property 5
MergeScenario == <<SerialNumberLine, ValueLine, ValueLine, NoLine>>

\* what the recognizer may return: the scenario with its label lines, a
\* lone "No." line, and every list of up to MaxLines lines drawn from the
\* value and its variant (two spellings of one key)
RecognizerOutputs ==
  SeqsUpTo({ValueLine, ValueLineVariant}, MaxLines)
    \cup {<<NoLine>>, MergeScenario}

\* the recognizer reports one line
FilterOutputs == {<<l>> : l \in FilterLines}

\* the recognizer outputs of the whole-app specification
AppOutputs == {MergeScenario, <<ValueLineVariant>>}

\* ------------------------------------------------------------------ values
NoUri == <<"null">>

PhotoUri == <<"photo">>

ScanUri(id) == <<"scans", id>>

NoError == "null"

CaptureFailed == "Failed to capture image. Please retry."

OcrUnsupported == "OCR is not supported in this runtime. Use development build."

NoNewText == "No new text detected. Retry with a clearer image."

OcrFailed == "OCR failed to analyze this photo. Please retry."

NoSession == [id |-> 0]

NoCall == <<"not called">>

\* no onSaveSession call
NoSnapshot == [imageUri |-> NoUri]

\* the barcode scanner: Date.now() at mount, and the cooldowns
StartMs == 10000

LIVE_SCAN_COOLDOWN_MS == 250

OCR_CAPTURE_COOLDOWN_MS == 1200

\* no normalization applied yet
NoResult == [fn |-> "none"]

\* what saveScan resolves to: null, or the id of the scan
ReturnedNull == <<"null">>

ReturnedId(id) == <<"id", id>>

\* ------------------------------------------------------------------- state
VARIABLES
  \* MultiBarcodeScanner (OCR capture session), while mounted
  mode, capturedUri, isAnalyzing, hasAnalyzedCurrentCapture, analysisError,
  detectedTexts, savedTexts,
  inFlight,        \* handleAnalyze calls suspended in their await, each with
                   \* the capturedUri/detectedTexts/savedTexts its closure holds
  \* AppContent
  activeTab, showScanner, scannerSession,
  effectPending,   \* AppContent re-rendered with a session: the scanner's
                   \* effect on [initialSession] is due before anything else
  \* SavedScansProvider and its stores
  scans,           \* the in-memory list
  stored,          \* the AsyncStorage item, <<>> when absent
  images,          \* the files under scans/: which saveScan call wrote each
  loadPending,     \* the mount-time loadScans has not resolved yet
  saveCalls,       \* saveScan calls suspended in their file-system awaits
  \* environment
  isOcrSupported, documentDirectory, nextId, now,
  analyses,        \* recognizer invocations so far (bounded by MaxAnalyses)
  \* observation only, read by no action
  itemsSaved,      \* argument of the onItemsSaved call made by the last step
  sessionSaved,    \* snapshot of the onSaveSession call made by the last step
  saveResult,      \* what the saveScan call that ended in the last step returned
  sessionIds,      \* ids saveScan was given or chose for the snapshots of the
                   \* current capture
  \* MultiBarcodeScanner with OCR corroboration (barcode scanner), while mounted
  scannedBarcodes, liveDetectedBarcodes,
  scannedBarcodesRef, liveDetectedBarcodesRef,  \* as of the last render
  lastLiveScanAt, processedNow, ocrInFlight, lastOcrCaptureAt, ocrAttempted,
  ocrCalls,        \* runOcrForBarcode calls suspended in their awaits
  clock,           \* Date.now()
  indexWrites,     \* lists handed to AsyncStorage.setItem and not landed yet
  savedTwice,      \* the last observed onSave call came right after an onSave call
  \* a normalization applied to a string
  argument, returned

scannerVars == <<mode, capturedUri, isAnalyzing, hasAnalyzedCurrentCapture,
                 analysisError, detectedTexts, savedTexts, inFlight, sessionIds>>

appVars == <<activeTab, showScanner, scannerSession>>

storeVars == <<scans, stored, images, loadPending, saveCalls, nextId, now>>

envVars == <<isOcrSupported, documentDirectory>>

\* the OCR session, the app shell and the store
appStateVars == <<scannerVars, itemsSaved, sessionSaved, saveResult, appVars,
                  effectPending, storeVars, envVars, analyses>>

fnVars == <<argument, returned>>

barcodeVars == <<scannedBarcodes, liveDetectedBarcodes, scannedBarcodesRef,
                 liveDetectedBarcodesRef, lastLiveScanAt, processedNow, ocrInFlight,
                 lastOcrCaptureAt, ocrAttempted, ocrCalls, clock>>

\* what the actions of the OCR session, the app shell and the store leave alone
otherVars == <<barcodeVars, fnVars, indexWrites, savedTwice>>

vars == <<appStateVars, otherVars>>

\* --------------------------------------------------- MultiBarcodeScanner
isShowingScanner == showScanner \/ activeTab = "scanner"

panelVisible ==
  isShowingScanner /\ mode = "analyze" /\ hasAnalyzedCurrentCapture

normalizedKeys(texts) == {keyOf(texts[i]) : i \in DOMAIN texts}

entryTexts(entries) == [i \in DOMAIN entries |-> entries[i].text]

\* the literals processLine compares the normalized (upper-cased) text with
LiteralNo == <<"n","o">>

LiteralSerialNumber == <<"s","e","r","i","a","l","n","u","m","b","e","r">>

LiteralSerial == <<"s","e","r","i","a","l">>

LiteralNumber == <<"n","u","m","b","e","r">>

\* the label test of processLine, on the trimmed line and its normalized form
isLabel(trimmed) ==
  LET normalized == normalizeText(trimmed)
  IN  \/ normalized = LiteralNo
      \/ normalized = LiteralSerialNumber
      \/ includes(normalized, LiteralSerial)
      \/ includes(toLowerCase(trimmed), LiteralNumber)

isLabelTable == [t \in Texts |-> isLabel(t)]

\* mutant: processLine without the existingSaved test
processLineIgnoringSaved(additions, text, existingDetected, existingSaved) ==
  LET trimmed == trimOf(text)
      normalized == keyOf(trimmed)
  IN  IF trimmed = <<>> \/ Len(normalized) < 3 THEN additions
      ELSE IF isLabelTable[trimmed]
           THEN additions
      ELSE IF normalized \in existingDetected
           THEN additions
      ELSE IF \E i \in DOMAIN additions : keyOf(additions[i].text) = normalized
           THEN additions
      ELSE Append(additions, [text |-> trimmed, selected |-> TRUE])

processLine(additions, text, existingDetected, existingSaved) ==
  LET trimmed == trimOf(text)
      normalized == keyOf(trimmed)
  IN  IF trimmed = <<>> \/ Len(normalized) < 3 THEN additions
      ELSE IF isLabelTable[trimmed]
           THEN additions
      ELSE IF normalized \in existingDetected \/ normalized \in existingSaved
           THEN additions
      ELSE IF \E i \in DOMAIN additions : keyOf(additions[i].text) = normalized
           THEN additions
      ELSE Append(additions, [text |-> trimmed, selected |-> TRUE])

RECURSIVE processLines(_, _, _, _)
processLines(additions, lines, existingDetected, existingSaved) ==
  IF lines = <<>> THEN additions
  ELSE processLines(
         processLine(additions, Head(lines), existingDetected, existingSaved),
         Tail(lines), existingDetected, existingSaved)

\* the additions a resumed handleAnalyze computes from what its closure holds
analyzeAdditions(call, lines) ==
  processLines(<<>>, lines,
               normalizedKeys(entryTexts(call.detectedTexts)),
               normalizedKeys(call.savedTexts))

\* mutant: the loop forgets existing.add(normalized)
RECURSIVE collectToAddWithoutMark(_, _, _)
collectToAddWithoutMark(entries, existing, toAdd) ==
  IF entries = <<>> THEN toAdd
  ELSE LET entry == Head(entries)
           normalized == keyOf(entry.text)
       IN  IF ~entry.selected
           THEN collectToAddWithoutMark(Tail(entries), existing, toAdd)
           ELSE IF normalized = <<>> \/ normalized \in existing
                THEN collectToAddWithoutMark(Tail(entries), existing, toAdd)
           ELSE collectToAddWithoutMark(Tail(entries), existing,
                                        Append(toAdd, entry.text))

\* the loop of handleSaveDetected: toAdd, given the keys already taken
RECURSIVE collectToAdd(_, _, _)
collectToAdd(entries, existing, toAdd) ==
  IF entries = <<>> THEN toAdd
  ELSE LET entry == Head(entries)
           normalized == keyOf(entry.text)
       IN  IF ~entry.selected THEN collectToAdd(Tail(entries), existing, toAdd)
           ELSE IF normalized = <<>> \/ normalized \in existing
                THEN collectToAdd(Tail(entries), existing, toAdd)
           ELSE collectToAdd(Tail(entries), existing \cup {normalized},
                             Append(toAdd, entry.text))

\* mutant: `existing` starts empty instead of holding the keys of savedTexts
saveToAddIgnoringSaved(entries, saved) == collectToAdd(entries, {}, <<>>)

saveToAdd(entries, saved) == collectToAdd(entries, normalizedKeys(saved), <<>>)

alreadySaved(text, saved) ==
  \E i \in DOMAIN saved : keyOf(saved[i]) = keyOf(text)

hasNewDetectedToSave ==
  \E i \in DOMAIN detectedTexts :
     detectedTexts[i].selected /\ ~alreadySaved(detectedTexts[i].text, savedTexts)

\* the Selected (n) figure of DetectedCollapsible
selectedCount(entries, saved) ==
  Cardinality({i \in DOMAIN entries :
                 ~alreadySaved(entries[i].text, saved) /\ entries[i].selected})

\* ----------------------------------------------------- SavedScansProvider
\* mutant: saveScan stores the list as the caller passed it
dedupeSavedTextsKeepingAll(texts) == texts

RECURSIVE dedupeFrom(_, _)
dedupeFrom(texts, seen) ==
  IF texts = <<>> THEN <<>>
  ELSE LET n == keyOf(Head(texts))
       IN  IF n = <<>> \/ n \in seen THEN dedupeFrom(Tail(texts), seen)
           ELSE <<Head(texts)>> \o dedupeFrom(Tail(texts), seen \cup {n})

dedupeSavedTexts(texts) == dedupeFrom(texts, {})

withoutId(list, id) ==
  LET keep(sc) == sc.id # id IN SelectSeq(list, keep)

\* saveScan up to its first await: dedupe, then id, destUri and createdAt
saveScanCall(sourceImageUri, detectedEntries, saved, existingScan) ==
  IF existingScan # NoSession
  THEN [id |-> existingScan.id, destUri |-> existingScan.imageUri,
        createdAt |-> existingScan.createdAt,
        detectedEntries |-> detectedEntries,
        savedTexts |-> dedupeSavedTexts(saved),
        existingScan |-> existingScan,
        calledAt |-> now,
        awaits |-> (sourceImageUri # existingScan.imageUri)]
  ELSE [id |-> nextId, destUri |-> ScanUri(nextId),
        createdAt |-> now,
        detectedEntries |-> detectedEntries,
        savedTexts |-> dedupeSavedTexts(saved),
        existingScan |-> NoSession,
        calledAt |-> now,
        awaits |-> TRUE]

\* the record saveScan builds and the list its setScans updater returns
scanOf(call) ==
  [id |-> call.id, imageUri |-> call.destUri,
   detectedEntries |-> call.detectedEntries,
   savedTexts |-> call.savedTexts, createdAt |-> call.createdAt]

\* mutant: the updater prepends without filtering the existing id out
saveScanNextKeepingAll(prev, call) == <<scanOf(call)>> \o prev

\* mutant: the updater puts the record at the end of the list
saveScanNextAppending(prev, call) ==
  (IF call.existingScan # NoSession
   THEN withoutId(prev, call.existingScan.id)
   ELSE prev) \o <<scanOf(call)>>

saveScanNext(prev, call) ==
  <<scanOf(call)>> \o
    (IF call.existingScan # NoSession
     THEN withoutId(prev, call.existingScan.id)
     ELSE prev)

\* persistScans: the AsyncStorage write lands or is rejected (and only warned)
persistScans(next, written) ==
  stored' = IF written THEN next ELSE stored

\* a change of the provider's scans re-renders AppContent (a context
\* consumer), which builds a new initialSession object on every render
rerenderAppContent ==
  effectPending' = (isShowingScanner /\ scannerSession # NoSession)

\* saveScan from its awaits on: setScans, whose updater calls persistScans
commitScan(call) ==
  /\ scans' = saveScanNext(scans, call)
  /\ \E written \in BOOLEAN : persistScans(scans', written)
  /\ rerenderAppContent

\* saveScan as far as it runs within the caller's event
saveScan(sourceImageUri, detectedEntries, saved, existingScan) ==
  IF ~documentDirectory
  THEN /\ saveResult' = ReturnedNull
       /\ UNCHANGED <<scans, stored, images, saveCalls, nextId, now,
                      effectPending>>
  ELSE LET call == saveScanCall(sourceImageUri, detectedEntries, saved,
                                existingScan)
       IN  /\ now' = now + 1
           /\ UNCHANGED images
           /\ IF call.awaits
              THEN /\ saveCalls' = Append(saveCalls, call)
                   /\ nextId' = IF existingScan = NoSession
                                THEN nextId + 1 ELSE nextId
                   /\ saveResult' = NoCall
                   /\ UNCHANGED <<scans, stored, effectPending>>
              ELSE /\ commitScan(call)
                   /\ saveResult' = ReturnedId(call.id)
                   /\ UNCHANGED <<saveCalls, nextId>>

\* FileSystem.copyAsync and deleteAsync on the files under scans/
copyAsync(files, call) ==
  {f \in files : f.uri # call.destUri}
    \cup {[uri |-> call.destUri, writtenAt |-> call.calledAt]}

deleteAsync(files, uri) == {f \in files : f.uri # uri}

\* mutant: the updater drops the whole list when it finds the scan
deleteScanClearing(id) ==
  /\ scans' = IF \E i \in DOMAIN scans : scans[i].id = id THEN <<>> ELSE scans
  /\ \E written \in BOOLEAN : persistScans(scans', written)
  /\ IF \E i \in DOMAIN scans : scans[i].id = id
     THEN LET scan == scans[CHOOSE i \in DOMAIN scans : scans[i].id = id]
          IN  \E deleted \in BOOLEAN :
                images' = IF deleted THEN deleteAsync(images, scan.imageUri)
                          ELSE images
     ELSE UNCHANGED images

\* deleteScan: the image of the scan is deleted (a failure is swallowed)
deleteScan(id) ==
  /\ scans' = withoutId(scans, id)
  /\ \E written \in BOOLEAN : persistScans(scans', written)
  /\ IF \E i \in DOMAIN scans : scans[i].id = id
     THEN LET scan == scans[CHOOSE i \in DOMAIN scans : scans[i].id = id]
          IN  \E deleted \in BOOLEAN :
                images' = IF deleted THEN deleteAsync(images, scan.imageUri)
                          ELSE images
     ELSE UNCHANGED images

\* -------------------------------------------------------------------- Init
\* useState initialisers of MultiBarcodeScanner for a given initialSession
mountScanner(session) ==
  /\ mode' = IF session # NoSession THEN "analyze" ELSE "camera"
  /\ capturedUri' = IF session # NoSession THEN session.imageUri ELSE NoUri
  /\ isAnalyzing' = FALSE
  /\ hasAnalyzedCurrentCapture' = (session # NoSession)
  /\ analysisError' = NoError
  /\ detectedTexts' = IF session # NoSession THEN session.detectedEntries ELSE <<>>
  /\ savedTexts' = IF session # NoSession THEN session.savedTexts ELSE <<>>
  /\ inFlight' = <<>>
  /\ sessionIds' = {}

\* the app right after launch, showing the given tab
InitStored(tab, index, files, firstId, pending) ==
  /\ mode = "camera"
  /\ capturedUri = NoUri
  /\ isAnalyzing = FALSE
  /\ hasAnalyzedCurrentCapture = FALSE
  /\ analysisError = NoError
  /\ detectedTexts = <<>>
  /\ savedTexts = <<>>
  /\ inFlight = <<>>
  /\ itemsSaved = NoCall
  /\ sessionSaved = NoSnapshot
  /\ saveResult = NoCall
  /\ sessionIds = {}
  /\ activeTab = tab
  /\ showScanner = FALSE
  /\ scannerSession = NoSession
  /\ effectPending = FALSE
  /\ scans = IF pending THEN <<>> ELSE index
  /\ stored = index
  /\ images = files
  /\ loadPending = pending
  /\ indexWrites = <<>>
  /\ savedTwice = FALSE
  /\ saveCalls = <<>>
  /\ isOcrSupported \in BOOLEAN
  /\ documentDirectory \in BOOLEAN
  /\ nextId = firstId
  /\ now = 1
  /\ analyses = 0

\* a first launch: nothing stored yet, loadScans pending
InitOn(tab) == InitStored(tab, <<>>, {}, 1, TRUE)

InitFn == argument = <<>> /\ returned = NoResult

\* useState and useRef initialisers of the barcode scanner
mountBarcodeScanner ==
  /\ scannedBarcodes' = <<>>
  /\ liveDetectedBarcodes' = <<>>
  /\ scannedBarcodesRef' = <<>>
  /\ liveDetectedBarcodesRef' = <<>>
  /\ lastLiveScanAt' = [p \in Payloads |-> 0]
  /\ processedNow' = [p \in Payloads |-> "no"]
  /\ ocrInFlight' = FALSE
  /\ lastOcrCaptureAt' = 0
  /\ ocrAttempted' = {}
  /\ ocrCalls' = <<>>

InitBarcode ==
  /\ scannedBarcodes = <<>>
  /\ liveDetectedBarcodes = <<>>
  /\ scannedBarcodesRef = <<>>
  /\ liveDetectedBarcodesRef = <<>>
  /\ lastLiveScanAt = [p \in Payloads |-> 0]
  /\ processedNow = [p \in Payloads |-> "no"]
  /\ ocrInFlight = FALSE
  /\ lastOcrCaptureAt = 0
  /\ ocrAttempted = {}
  /\ ocrCalls = <<>>
  /\ clock = StartMs

Init == InitOn("scanner") /\ InitBarcode /\ InitFn

\* ------------------------------------------------- MultiBarcodeScanner ops
RemoveAt(seq, i) == SubSeq(seq, 1, i - 1) \o SubSeq(seq, i + 1, Len(seq))

\* observation: the pending calls were started before a retake or reanalyze
markStale(calls) == [i \in DOMAIN calls |-> [calls[i] EXCEPT !.stale = TRUE]]

\* takePictureAsync resolved with a photo, or rejected; a photo without uri
\* returns without touching the state
handleCapture ==
  /\ isShowingScanner /\ mode = "camera"
  /\ \E photo \in BOOLEAN :
       IF photo
       THEN /\ capturedUri' = PhotoUri
            /\ mode' = "analyze"
            /\ hasAnalyzedCurrentCapture' = FALSE
            /\ analysisError' = NoError
            /\ sessionIds' = {}
       ELSE /\ analysisError' = CaptureFailed
            /\ UNCHANGED <<capturedUri, mode, hasAnalyzedCurrentCapture,
                           sessionIds>>
  /\ itemsSaved' = NoCall
  /\ sessionSaved' = NoSnapshot
  /\ UNCHANGED otherVars
  /\ saveResult' = NoCall
  /\ UNCHANGED <<isAnalyzing, detectedTexts, savedTexts, inFlight,
                 appVars, effectPending, storeVars, envVars, analyses>>

\* the Retake button, shown while the capture is not analyzed
handleRetry ==
  /\ isShowingScanner /\ mode = "analyze" /\ ~hasAnalyzedCurrentCapture
  /\ mode' = "camera"
  /\ capturedUri' = NoUri
  /\ analysisError' = NoError
  /\ isAnalyzing' = FALSE
  /\ hasAnalyzedCurrentCapture' = FALSE
  /\ inFlight' = markStale(inFlight)
  /\ itemsSaved' = NoCall
  /\ sessionSaved' = NoSnapshot
  /\ UNCHANGED otherVars
  /\ saveResult' = NoCall
  /\ UNCHANGED <<detectedTexts, savedTexts, sessionIds,
                 appVars, effectPending, storeVars, envVars, analyses>>

\* mutant: handleAnalyze without its isOcrSupported test
handleAnalyzeIgnoringSupport ==
  /\ isShowingScanner /\ mode = "analyze" /\ ~hasAnalyzedCurrentCapture
  /\ ~isAnalyzing
  /\ capturedUri # NoUri
  /\ analyses < MaxAnalyses
  /\ analyses' = analyses + 1
  /\ isAnalyzing' = TRUE
  /\ analysisError' = NoError
  /\ inFlight' = Append(inFlight,
                        [capturedUri |-> capturedUri,
                         detectedTexts |-> detectedTexts,
                         savedTexts |-> savedTexts,
                         stale |-> FALSE])
  /\ itemsSaved' = NoCall
  /\ sessionSaved' = NoSnapshot
  /\ UNCHANGED otherVars
  /\ saveResult' = NoCall
  /\ UNCHANGED <<mode, capturedUri, detectedTexts, savedTexts, sessionIds,
                 hasAnalyzedCurrentCapture,
                 appVars, effectPending, storeVars, envVars>>

\* the Analyze button (disabled while isAnalyzing): handleAnalyze up to its
\* await, or the whole of it when OCR is not supported
handleAnalyze ==
  /\ isShowingScanner /\ mode = "analyze" /\ ~hasAnalyzedCurrentCapture
  /\ ~isAnalyzing
  /\ capturedUri # NoUri
  /\ IF ~isOcrSupported
     THEN /\ analysisError' = OcrUnsupported
          /\ hasAnalyzedCurrentCapture' = TRUE
          /\ UNCHANGED <<isAnalyzing, inFlight, analyses>>
     ELSE /\ analyses < MaxAnalyses
          /\ analyses' = analyses + 1
          /\ isAnalyzing' = TRUE
          /\ analysisError' = NoError
          /\ inFlight' = Append(inFlight,
                                [capturedUri |-> capturedUri,
                                 detectedTexts |-> detectedTexts,
                                 savedTexts |-> savedTexts,
                                 stale |-> FALSE])
          /\ UNCHANGED hasAnalyzedCurrentCapture
  /\ itemsSaved' = NoCall
  /\ sessionSaved' = NoSnapshot
  /\ UNCHANGED otherVars
  /\ saveResult' = NoCall
  /\ UNCHANGED <<mode, capturedUri, detectedTexts, savedTexts, sessionIds,
                 appVars, effectPending, storeVars, envVars>>

\* mutant: no message when nothing was added
analyzeResolveSilent(i, lines) ==
  /\ i \in DOMAIN inFlight
  /\ detectedTexts' = detectedTexts \o analyzeAdditions(inFlight[i], lines)
  /\ isAnalyzing' = FALSE
  /\ hasAnalyzedCurrentCapture' = TRUE
  /\ inFlight' = RemoveAt(inFlight, i)
  /\ itemsSaved' = NoCall
  /\ sessionSaved' = NoSnapshot
  /\ UNCHANGED otherVars
  /\ saveResult' = NoCall
  /\ UNCHANGED <<mode, capturedUri, savedTexts, sessionIds, analysisError,
                 appVars, effectPending, storeVars, envVars, analyses>>

\* mutant: hasAnalyzedCurrentCapture is set on the way through, not in finally,
\* and so only when something was added
analyzeResolveNoFinally(i, lines) ==
  /\ i \in DOMAIN inFlight
  /\ LET additions == analyzeAdditions(inFlight[i], lines)
     IN  IF additions = <<>>
         THEN /\ analysisError' = NoNewText
              /\ UNCHANGED <<detectedTexts, isAnalyzing, hasAnalyzedCurrentCapture>>
         ELSE /\ detectedTexts' = detectedTexts \o additions
              /\ isAnalyzing' = FALSE
              /\ hasAnalyzedCurrentCapture' = TRUE
              /\ UNCHANGED analysisError
  /\ inFlight' = RemoveAt(inFlight, i)
  /\ itemsSaved' = NoCall
  /\ sessionSaved' = NoSnapshot
  /\ UNCHANGED otherVars
  /\ saveResult' = NoCall
  /\ UNCHANGED <<mode, capturedUri, savedTexts, sessionIds,
                 appVars, effectPending, storeVars, envVars, analyses>>

\* handleAnalyze after its await: the recognizer answered (with bounds, or
\* through the extractTextFromImage fallback) with these lines
analyzeResolve(i, lines) ==
  /\ i \in DOMAIN inFlight
  /\ LET additions == analyzeAdditions(inFlight[i], lines)
     IN  IF additions = <<>>
         THEN /\ analysisError' = NoNewText
              /\ UNCHANGED detectedTexts
         ELSE /\ detectedTexts' = detectedTexts \o additions
              /\ UNCHANGED analysisError
  /\ isAnalyzing' = FALSE
  /\ hasAnalyzedCurrentCapture' = TRUE
  /\ inFlight' = RemoveAt(inFlight, i)
  /\ itemsSaved' = NoCall
  /\ sessionSaved' = NoSnapshot
  /\ UNCHANGED otherVars
  /\ saveResult' = NoCall
  /\ UNCHANGED <<mode, capturedUri, savedTexts, sessionIds,
                 appVars, effectPending, storeVars, envVars, analyses>>

\* mutant: the catch without the finally
analyzeRejectNoFinally(i) ==
  /\ i \in DOMAIN inFlight
  /\ analysisError' = OcrFailed
  /\ inFlight' = RemoveAt(inFlight, i)
  /\ itemsSaved' = NoCall
  /\ sessionSaved' = NoSnapshot
  /\ UNCHANGED otherVars
  /\ saveResult' = NoCall
  /\ UNCHANGED <<mode, capturedUri, detectedTexts, savedTexts, sessionIds,
                 isAnalyzing, hasAnalyzedCurrentCapture,
                 appVars, effectPending, storeVars, envVars, analyses>>

\* handleAnalyze after its await: extractTextFromImage threw
analyzeReject(i) ==
  /\ i \in DOMAIN inFlight
  /\ analysisError' = OcrFailed
  /\ isAnalyzing' = FALSE
  /\ hasAnalyzedCurrentCapture' = TRUE
  /\ inFlight' = RemoveAt(inFlight, i)
  /\ itemsSaved' = NoCall
  /\ sessionSaved' = NoSnapshot
  /\ UNCHANGED otherVars
  /\ saveResult' = NoCall
  /\ UNCHANGED <<mode, capturedUri, detectedTexts, savedTexts, sessionIds,
                 appVars, effectPending, storeVars, envVars, analyses>>

handleAnalyzeResolved(outputs) ==
  \E i \in DOMAIN inFlight, lines \in outputs : analyzeResolve(i, lines)

handleAnalyzeRejected == \E i \in DOMAIN inFlight : analyzeReject(i)

\* mutant: toggleDetectedSelection without its alreadySaved return
toggleDetectedSelectionOfSaved(text) ==
  /\ panelVisible
  /\ detectedTexts' =
       [i \in DOMAIN detectedTexts |->
          IF keyOf(detectedTexts[i].text) = keyOf(text)
          THEN [detectedTexts[i] EXCEPT !.selected = ~detectedTexts[i].selected]
          ELSE detectedTexts[i]]
  /\ itemsSaved' = NoCall
  /\ sessionSaved' = NoSnapshot
  /\ UNCHANGED otherVars
  /\ saveResult' = NoCall
  /\ UNCHANGED <<mode, capturedUri, isAnalyzing, hasAnalyzedCurrentCapture,
                 analysisError, savedTexts, inFlight, sessionIds,
                 appVars, effectPending, storeVars, envVars, analyses>>

\* a tap on an entry of the panel; the handler returns at once for an entry
\* already saved (whose row the panel also renders disabled)
toggleDetectedSelection(text) ==
  /\ panelVisible
  /\ IF alreadySaved(text, savedTexts)
     THEN UNCHANGED detectedTexts
     ELSE detectedTexts' =
            [i \in DOMAIN detectedTexts |->
               IF keyOf(detectedTexts[i].text) = keyOf(text)
               THEN [detectedTexts[i] EXCEPT !.selected = ~detectedTexts[i].selected]
               ELSE detectedTexts[i]]
  /\ itemsSaved' = NoCall
  /\ sessionSaved' = NoSnapshot
  /\ UNCHANGED otherVars
  /\ saveResult' = NoCall
  /\ UNCHANGED <<mode, capturedUri, isAnalyzing, hasAnalyzedCurrentCapture,
                 analysisError, savedTexts, inFlight, sessionIds,
                 appVars, effectPending, storeVars, envVars, analyses>>

\* the snapshot handleSaveDetected hands to onSaveSession
snapshotOf(imageUri, detectedEntries, saved) ==
  [imageUri |-> imageUri, detectedEntries |-> detectedEntries,
   savedTexts |-> saved]

\* mutant: the snapshot carries the savedTexts of before the save
saveDetectedStaleSnapshot ==
  /\ now <= MaxSaveCalls
  /\ LET toAdd == saveToAdd(detectedTexts, savedTexts)
         newSavedTexts == IF toAdd # <<>> THEN savedTexts \o toAdd ELSE savedTexts
     IN  /\ savedTexts' = newSavedTexts
         /\ itemsSaved' = IF toAdd # <<>> THEN toAdd ELSE NoCall
         /\ IF capturedUri # NoUri
               /\ (newSavedTexts # <<>> \/ detectedTexts # <<>>)
            THEN /\ sessionSaved' = snapshotOf(capturedUri, detectedTexts,
                                               savedTexts)
                 /\ saveScan(capturedUri, detectedTexts, savedTexts,
                             scannerSession)
                 /\ sessionIds' =
                      IF documentDirectory
                      THEN sessionIds \cup
                             {saveScanCall(capturedUri, detectedTexts,
                                           savedTexts, scannerSession).id}
                      ELSE sessionIds
            ELSE /\ sessionSaved' = NoSnapshot
                 /\ saveResult' = NoCall
                 /\ UNCHANGED <<scans, stored, images, saveCalls, nextId, now,
                                effectPending, sessionIds>>
  /\ UNCHANGED <<mode, capturedUri, isAnalyzing, hasAnalyzedCurrentCapture,
                 analysisError, detectedTexts, inFlight, loadPending,
                 appVars, envVars, analyses,
                 barcodeVars, fnVars, indexWrites>>

\* mutant: onItemsSaved is called whether or not anything was added
saveDetectedAlwaysNotifying ==
  /\ now <= MaxSaveCalls
  /\ LET toAdd == saveToAdd(detectedTexts, savedTexts)
         newSavedTexts == IF toAdd # <<>> THEN savedTexts \o toAdd ELSE savedTexts
     IN  /\ savedTexts' = newSavedTexts
         /\ itemsSaved' = toAdd
         /\ IF capturedUri # NoUri
               /\ (newSavedTexts # <<>> \/ detectedTexts # <<>>)
            THEN /\ sessionSaved' = snapshotOf(capturedUri, detectedTexts,
                                               newSavedTexts)
                 /\ saveScan(capturedUri, detectedTexts, newSavedTexts,
                             scannerSession)
                 /\ sessionIds' =
                      IF documentDirectory
                      THEN sessionIds \cup
                             {saveScanCall(capturedUri, detectedTexts,
                                           newSavedTexts, scannerSession).id}
                      ELSE sessionIds
            ELSE /\ sessionSaved' = NoSnapshot
                 /\ saveResult' = NoCall
                 /\ UNCHANGED <<scans, stored, images, saveCalls, nextId, now,
                                effectPending, sessionIds>>
  /\ UNCHANGED <<mode, capturedUri, isAnalyzing, hasAnalyzedCurrentCapture,
                 analysisError, detectedTexts, inFlight, loadPending,
                 appVars, envVars, analyses,
                 barcodeVars, fnVars, indexWrites>>

\* handleSaveDetected, the onSaveSession callback of AppContent and saveScan
\* as far as it runs within this event
saveDetected ==
  /\ now <= MaxSaveCalls
  /\ LET toAdd == saveToAdd(detectedTexts, savedTexts)
         newSavedTexts == IF toAdd # <<>> THEN savedTexts \o toAdd ELSE savedTexts
     IN  /\ savedTexts' = newSavedTexts
         /\ itemsSaved' = IF toAdd # <<>> THEN toAdd ELSE NoCall
         /\ IF capturedUri # NoUri
               /\ (newSavedTexts # <<>> \/ detectedTexts # <<>>)
            THEN /\ sessionSaved' = snapshotOf(capturedUri, detectedTexts,
                                               newSavedTexts)
                 /\ saveScan(capturedUri, detectedTexts, newSavedTexts,
                             scannerSession)
                 /\ sessionIds' =
                      IF documentDirectory
                      THEN sessionIds \cup
                             {saveScanCall(capturedUri, detectedTexts,
                                           newSavedTexts, scannerSession).id}
                      ELSE sessionIds
            ELSE /\ sessionSaved' = NoSnapshot
                 /\ saveResult' = NoCall
                 /\ UNCHANGED <<scans, stored, images, saveCalls, nextId, now,
                                effectPending, sessionIds>>
  /\ UNCHANGED <<mode, capturedUri, isAnalyzing, hasAnalyzedCurrentCapture,
                 analysisError, detectedTexts, inFlight, loadPending,
                 appVars, envVars, analyses,
                 barcodeVars, fnVars, indexWrites>>

\* the Save button of the panel, disabled unless hasNewToSave
handleSaveDetected ==
  panelVisible /\ hasNewDetectedToSave /\ saveDetected /\ UNCHANGED savedTwice

\* onSave called while the panel shows, whatever hasNewToSave says
handleSaveDetectedCalled == panelVisible /\ saveDetected /\ UNCHANGED savedTwice

\* every step but handleSaveDetected sets sessionSaved to NoSnapshot
savedJustNow == sessionSaved # NoSnapshot

\* the same call, noting whether the step before it was an onSave call too
handleSaveDetectedObserved ==
  panelVisible /\ saveDetected /\ savedTwice' = savedJustNow

\* mutant: clearDetected that resets the analysis as handleReanalyze does
clearDetectedAndAnalysis ==
  /\ panelVisible
  /\ detectedTexts' = <<>>
  /\ analysisError' = NoError
  /\ hasAnalyzedCurrentCapture' = FALSE
  /\ itemsSaved' = NoCall
  /\ sessionSaved' = NoSnapshot
  /\ UNCHANGED otherVars
  /\ saveResult' = NoCall
  /\ UNCHANGED <<mode, capturedUri, isAnalyzing,
                 savedTexts, inFlight, sessionIds,
                 appVars, effectPending, storeVars, envVars, analyses>>

clearDetected ==
  /\ panelVisible
  /\ detectedTexts' = <<>>
  /\ analysisError' = NoError
  /\ itemsSaved' = NoCall
  /\ sessionSaved' = NoSnapshot
  /\ UNCHANGED otherVars
  /\ saveResult' = NoCall
  /\ UNCHANGED <<mode, capturedUri, isAnalyzing, hasAnalyzedCurrentCapture,
                 savedTexts, inFlight, sessionIds,
                 appVars, effectPending, storeVars, envVars, analyses>>

\* mutant: handleReanalyze without setAnalysisError(null)
handleReanalyzeKeepingError ==
  /\ panelVisible
  /\ detectedTexts' = <<>>
  /\ hasAnalyzedCurrentCapture' = FALSE
  /\ inFlight' = markStale(inFlight)
  /\ itemsSaved' = NoCall
  /\ sessionSaved' = NoSnapshot
  /\ UNCHANGED otherVars
  /\ saveResult' = NoCall
  /\ UNCHANGED <<mode, capturedUri, isAnalyzing, savedTexts, sessionIds,
                 analysisError,
                 appVars, effectPending, storeVars, envVars, analyses>>

handleReanalyze ==
  /\ panelVisible
  /\ detectedTexts' = <<>>
  /\ analysisError' = NoError
  /\ hasAnalyzedCurrentCapture' = FALSE
  /\ inFlight' = markStale(inFlight)
  /\ itemsSaved' = NoCall
  /\ sessionSaved' = NoSnapshot
  /\ UNCHANGED otherVars
  /\ saveResult' = NoCall
  /\ UNCHANGED <<mode, capturedUri, isAnalyzing, savedTexts, sessionIds,
                 appVars, effectPending, storeVars, envVars, analyses>>

\* mutant: the edited entry is rebuilt instead of spread, losing its flag
handleEditDetectedTextReselecting(oldText, newText) ==
  /\ panelVisible
  /\ ~alreadySaved(oldText, savedTexts)
  /\ detectedTexts' =
       [i \in DOMAIN detectedTexts |->
          IF keyOf(detectedTexts[i].text) = keyOf(oldText)
          THEN [text |-> newText, selected |-> TRUE]
          ELSE detectedTexts[i]]
  /\ itemsSaved' = NoCall
  /\ sessionSaved' = NoSnapshot
  /\ UNCHANGED otherVars
  /\ saveResult' = NoCall
  /\ UNCHANGED <<mode, capturedUri, isAnalyzing, hasAnalyzedCurrentCapture,
                 analysisError, savedTexts, inFlight, sessionIds,
                 appVars, effectPending, storeVars, envVars, analyses>>

\* the edit box, opened by a long press on an entry that is not saved yet
handleEditDetectedText(oldText, newText) ==
  /\ panelVisible
  /\ ~alreadySaved(oldText, savedTexts)
  /\ detectedTexts' =
       [i \in DOMAIN detectedTexts |->
          IF keyOf(detectedTexts[i].text) = keyOf(oldText)
          THEN [detectedTexts[i] EXCEPT !.text = newText]
          ELSE detectedTexts[i]]
  /\ itemsSaved' = NoCall
  /\ sessionSaved' = NoSnapshot
  /\ UNCHANGED otherVars
  /\ saveResult' = NoCall
  /\ UNCHANGED <<mode, capturedUri, isAnalyzing, hasAnalyzedCurrentCapture,
                 analysisError, savedTexts, inFlight, sessionIds,
                 appVars, effectPending, storeVars, envVars, analyses>>

\* the effect on [initialSession], run after a re-render of AppContent
initialSessionEffect ==
  /\ effectPending
  /\ effectPending' = FALSE
  /\ mode' = "analyze"
  /\ capturedUri' = scannerSession.imageUri
  /\ detectedTexts' = scannerSession.detectedEntries
  /\ savedTexts' = scannerSession.savedTexts
  /\ hasAnalyzedCurrentCapture' = TRUE
  /\ itemsSaved' = NoCall
  /\ sessionSaved' = NoSnapshot
  /\ UNCHANGED otherVars
  /\ saveResult' = NoCall
  /\ UNCHANGED <<isAnalyzing, analysisError, inFlight, sessionIds,
                 appVars, storeVars, envVars, analyses>>

\* ------------------------------------------------------ SavedScansProvider
\* saveScan after its awaits: the image was copied, or a file-system call
\* threw and saveScan returns null
saveScanResume(i, copied) ==
  /\ i \in DOMAIN saveCalls
  /\ saveCalls' = RemoveAt(saveCalls, i)
  /\ IF copied
     THEN /\ images' = copyAsync(images, saveCalls[i])
          /\ commitScan(saveCalls[i])
          /\ saveResult' = ReturnedId(saveCalls[i].id)
     ELSE /\ saveResult' = ReturnedNull
          /\ UNCHANGED <<scans, stored, images, effectPending>>
  /\ itemsSaved' = NoCall
  /\ sessionSaved' = NoSnapshot
  /\ UNCHANGED otherVars
  /\ UNCHANGED <<scannerVars, loadPending, nextId, now, appVars, envVars,
                 analyses>>

saveScanResolved == \E i \in DOMAIN saveCalls : saveScanResume(i, TRUE)

saveScanRejected == \E i \in DOMAIN saveCalls : saveScanResume(i, FALSE)

\* the mount-time loadScans resolves: the stored list, or [] when getItem threw
loadScansSettled(read) ==
  /\ loadPending
  /\ loadPending' = FALSE
  /\ scans' = IF read THEN stored ELSE <<>>
  /\ rerenderAppContent
  /\ itemsSaved' = NoCall
  /\ sessionSaved' = NoSnapshot
  /\ UNCHANGED otherVars
  /\ saveResult' = NoCall
  /\ UNCHANGED <<scannerVars, stored, images, saveCalls, nextId, now, appVars,
                 envVars, analyses>>

loadScans == \E read \in BOOLEAN : loadScansSettled(read)

\* -------------------------------------------------------------- AppContent
handleCloseScanner ==
  /\ isShowingScanner
  /\ IF showScanner
     THEN /\ showScanner' = FALSE
          /\ scannerSession' = NoSession
          /\ UNCHANGED activeTab
     ELSE /\ activeTab' = "data"
          /\ UNCHANGED <<showScanner, scannerSession>>
  /\ mountScanner(NoSession)
  /\ itemsSaved' = NoCall
  /\ sessionSaved' = NoSnapshot
  /\ UNCHANGED otherVars
  /\ saveResult' = NoCall
  /\ UNCHANGED <<effectPending, storeVars, envVars, analyses>>

onTabChange(tab) ==
  /\ ~isShowingScanner
  /\ tab # activeTab
  /\ activeTab' = tab
  /\ mountScanner(NoSession)
  /\ itemsSaved' = NoCall
  /\ sessionSaved' = NoSnapshot
  /\ UNCHANGED otherVars
  /\ saveResult' = NoCall
  /\ UNCHANGED <<showScanner, scannerSession, effectPending, storeVars,
                 envVars, analyses>>

\* DataScreen: a tap on a saved scan opens it in the scanner
openScanner(session) ==
  /\ ~isShowingScanner /\ activeTab = "data"
  /\ scannerSession' = session
  /\ showScanner' = TRUE
  /\ mountScanner(session)
  /\ itemsSaved' = NoCall
  /\ sessionSaved' = NoSnapshot
  /\ UNCHANGED otherVars
  /\ saveResult' = NoCall
  /\ UNCHANGED <<activeTab, effectPending, storeVars, envVars, analyses>>

\* DataScreen: the swipe action of a saved scan
handleDelete(item) ==
  /\ ~isShowingScanner /\ activeTab = "data"
  /\ deleteScan(item.id)
  /\ itemsSaved' = NoCall
  /\ sessionSaved' = NoSnapshot
  /\ UNCHANGED otherVars
  /\ saveResult' = NoCall
  /\ UNCHANGED <<scannerVars, loadPending, saveCalls, nextId, now,
                 appVars, effectPending, envVars, analyses>>

\* ---------------------------------------------- the provider's operations
\* called directly, with the Data tab showing
StoreEntries == {<<[text |-> ValueLine, selected |-> TRUE]>>}

StoreSavedTexts == {<<>>, <<ValueLine, trim(ValueLineVariant)>>,
                    <<ValueLine, NoLine, trim(ValueLineVariant)>>}

saveScanCalled ==
  /\ now <= MaxSaveCalls
  /\ \E existingScan \in {NoSession} \cup {scans[i] : i \in DOMAIN scans},
        detectedEntries \in StoreEntries, saved \in StoreSavedTexts :
       \E sourceImageUri \in
            {PhotoUri} \cup (IF existingScan # NoSession
                             THEN {existingScan.imageUri} ELSE {}) :
          saveScan(sourceImageUri, detectedEntries, saved, existingScan)
  /\ itemsSaved' = NoCall
  /\ sessionSaved' = NoSnapshot
  /\ UNCHANGED otherVars
  /\ UNCHANGED <<scannerVars, loadPending, appVars, envVars, analyses>>

deleteScanCalled ==
  /\ \E id \in 1..nextId : deleteScan(id)
  /\ itemsSaved' = NoCall
  /\ sessionSaved' = NoSnapshot
  /\ UNCHANGED otherVars
  /\ saveResult' = NoCall
  /\ UNCHANGED <<scannerVars, loadPending, saveCalls, nextId, now,
                 appVars, effectPending, envVars, analyses>>

\* ---------------------------------- the provider with its index writes in flight
\* a session saved by an earlier run of the app
PriorScan ==
  [id |-> 1, imageUri |-> ScanUri(1),
   detectedEntries |-> <<[text |-> ValueLine, selected |-> TRUE]>>,
   savedTexts |-> <<ValueLine>>, createdAt |-> 0]

PriorImages == {[uri |-> ScanUri(1), writtenAt |-> 0]}

\* setScans whose updater hands next to persistScans: AsyncStorage.setItem is
\* called and its promise is left to settle
setScansPersisting(next) ==
  /\ scans' = next
  /\ indexWrites' = Append(indexWrites, next)
  /\ UNCHANGED stored
  /\ rerenderAppContent

\* saveScan as far as it runs within the caller's event
saveScanQueued ==
  /\ now <= MaxSaveCalls
  /\ documentDirectory
  /\ now' = now + 1
  /\ \E existingScan \in {NoSession} \cup {scans[i] : i \in DOMAIN scans},
        detectedEntries \in StoreEntries, saved \in StoreSavedTexts :
       \E sourceImageUri \in
            {PhotoUri} \cup (IF existingScan # NoSession
                             THEN {existingScan.imageUri} ELSE {}) :
         LET call == saveScanCall(sourceImageUri, detectedEntries, saved,
                                  existingScan)
         IN IF call.awaits
            THEN /\ saveCalls' = Append(saveCalls, call)
                 /\ nextId' = IF existingScan = NoSession
                              THEN nextId + 1 ELSE nextId
                 /\ saveResult' = NoCall
                 /\ UNCHANGED <<scans, stored, indexWrites, effectPending>>
            ELSE /\ Len(indexWrites) < MaxWrites
                 /\ setScansPersisting(saveScanNext(scans, call))
                 /\ saveResult' = ReturnedId(call.id)
                 /\ UNCHANGED <<saveCalls, nextId>>
  /\ itemsSaved' = NoCall
  /\ sessionSaved' = NoSnapshot
  /\ UNCHANGED <<barcodeVars, fnVars, savedTwice>>
  /\ UNCHANGED <<scannerVars, images, loadPending, appVars, envVars, analyses>>

\* saveScan after its awaits, the image copied
saveScanCopied ==
  /\ Len(indexWrites) < MaxWrites
  /\ \E i \in DOMAIN saveCalls :
       /\ saveCalls' = RemoveAt(saveCalls, i)
       /\ images' = copyAsync(images, saveCalls[i])
       /\ setScansPersisting(saveScanNext(scans, saveCalls[i]))
       /\ saveResult' = ReturnedId(saveCalls[i].id)
  /\ itemsSaved' = NoCall
  /\ sessionSaved' = NoSnapshot
  /\ UNCHANGED <<barcodeVars, fnVars, savedTwice>>
  /\ UNCHANGED <<scannerVars, loadPending, nextId, now, appVars, envVars,
                 analyses>>

deleteScanQueued(ids) ==
  /\ Len(indexWrites) < MaxWrites
  /\ \E id \in ids :
       /\ setScansPersisting(withoutId(scans, id))
       /\ IF \E i \in DOMAIN scans : scans[i].id = id
          THEN LET scan == scans[CHOOSE i \in DOMAIN scans : scans[i].id = id]
               IN  \E deleted \in BOOLEAN :
                     images' = IF deleted
                               THEN deleteAsync(images, scan.imageUri)
                               ELSE images
          ELSE UNCHANGED images
  /\ itemsSaved' = NoCall
  /\ sessionSaved' = NoSnapshot
  /\ saveResult' = NoCall
  /\ UNCHANGED <<barcodeVars, fnVars, savedTwice>>
  /\ UNCHANGED <<scannerVars, loadPending, saveCalls, nextId, now, appVars,
                 envVars, analyses>>

\* one of the AsyncStorage.setItem calls in flight lands
setItemResolved ==
  /\ \E i \in DOMAIN indexWrites :
       /\ stored' = indexWrites[i]
       /\ indexWrites' = RemoveAt(indexWrites, i)
  /\ itemsSaved' = NoCall
  /\ sessionSaved' = NoSnapshot
  /\ saveResult' = NoCall
  /\ UNCHANGED <<barcodeVars, fnVars, savedTwice>>
  /\ UNCHANGED <<scannerVars, scans, images, loadPending, saveCalls, nextId,
                 now, appVars, effectPending, envVars, analyses>>

\* the texts the edit box may have been opened on: those of the entries
\* listed, and one that the list may not hold (the box keeps its oldText)
editedTexts == {detectedTexts[i].text : i \in DOMAIN detectedTexts} \cup {NoLine}

\* ------------------------------------- barcode scanner with OCR corroboration
\* the identifying keys of an entry: its normalized payload and its
\* normalized corroborating text, without the empty ones
extractCandidateValues(entry) ==
  {valueKey(entry.data), valueKey(entry.ocrText)} \ {<<>>}

\* the first line that, trimmed, has a key of three characters or more other
\* than the barcode's own; <<>> stands for undefined
RECURSIVE findBestOcrLine(_, _)
findBestOcrLine(lines, barcodeData) ==
  IF lines = <<>> THEN <<>>
  ELSE LET trimmed == trim(Head(lines))
           lineKey == valueKey(trimmed)
       IN IF \/ trimmed = <<>>
             \/ lineKey = <<>>
             \/ lineKey = valueKey(barcodeData)
             \/ Len(lineKey) < 3
          THEN findBestOcrLine(Tail(lines), barcodeData)
          ELSE trimmed

sharesValue(entry, values) == extractCandidateValues(entry) \cap values # {}

\* the component function runs again: the refs take the current state
barcodeRendered ==
  /\ scannedBarcodesRef' = scannedBarcodes'
  /\ liveDetectedBarcodesRef' = liveDetectedBarcodes'

barcodeRender ==
  /\ <<scannedBarcodesRef, liveDetectedBarcodesRef>>
       # <<scannedBarcodes, liveDetectedBarcodes>>
  /\ UNCHANGED <<scannedBarcodes, liveDetectedBarcodes>>
  /\ barcodeRendered
  /\ UNCHANGED <<lastLiveScanAt, processedNow, ocrInFlight, lastOcrCaptureAt, ocrAttempted,
                 ocrCalls, clock>>
  /\ UNCHANGED <<appStateVars, fnVars, indexWrites, savedTwice>>

\* the part of runOcrForBarcode before its first await
runOcrForBarcode(barcodeData) ==
  IF /\ isOcrSupported
     /\ ~ocrInFlight
     /\ clock - lastOcrCaptureAt >= OCR_CAPTURE_COOLDOWN_MS
  THEN /\ ocrInFlight' = TRUE
       /\ lastOcrCaptureAt' = clock
       /\ ocrCalls' = Append(ocrCalls, barcodeData)
  ELSE UNCHANGED <<ocrInFlight, lastOcrCaptureAt, ocrCalls>>

\* mutant: the updater attaches the line without looking at the other entries
runOcrForBarcodeResolvedIgnoringLive(lines) ==
  /\ ocrCalls # <<>>
  /\ LET barcodeData == Head(ocrCalls)
         bestOcrLine == findBestOcrLine(lines, barcodeData)
         candidateValues ==
           extractCandidateValues([data |-> barcodeData, ocrText |-> bestOcrLine])
         duplicateInSaved ==
           \E i \in DOMAIN scannedBarcodesRef :
             /\ scannedBarcodesRef[i].data # barcodeData
             /\ sharesValue(scannedBarcodesRef[i], candidateValues)
     IN liveDetectedBarcodes' =
          IF bestOcrLine = <<>> \/ duplicateInSaved
          THEN liveDetectedBarcodes
          ELSE [i \in DOMAIN liveDetectedBarcodes |->
                 IF liveDetectedBarcodes[i].data = barcodeData
                 THEN [liveDetectedBarcodes[i] EXCEPT !.ocrText = bestOcrLine]
                 ELSE liveDetectedBarcodes[i]]
  /\ ocrInFlight' = FALSE
  /\ ocrCalls' = Tail(ocrCalls)
  /\ UNCHANGED <<scannedBarcodes, scannedBarcodesRef, liveDetectedBarcodesRef,
                 lastLiveScanAt, processedNow, lastOcrCaptureAt, ocrAttempted,
                 clock>>
  /\ UNCHANGED <<appStateVars, fnVars, indexWrites, savedTwice>>

\* takePictureAsync and extractTextFromImage resolved with lines
runOcrForBarcodeResolved(lines) ==
  /\ ocrCalls # <<>>
  /\ LET barcodeData == Head(ocrCalls)
         bestOcrLine == findBestOcrLine(lines, barcodeData)
         candidateValues ==
           extractCandidateValues([data |-> barcodeData, ocrText |-> bestOcrLine])
         duplicateInSaved ==
           \E i \in DOMAIN scannedBarcodesRef :
             /\ scannedBarcodesRef[i].data # barcodeData
             /\ sharesValue(scannedBarcodesRef[i], candidateValues)
         duplicateInLive ==
           \E i \in DOMAIN liveDetectedBarcodes :
             /\ liveDetectedBarcodes[i].data # barcodeData
             /\ sharesValue(liveDetectedBarcodes[i], candidateValues)
     IN liveDetectedBarcodes' =
          IF bestOcrLine = <<>> \/ duplicateInSaved \/ duplicateInLive
          THEN liveDetectedBarcodes
          ELSE [i \in DOMAIN liveDetectedBarcodes |->
                 IF liveDetectedBarcodes[i].data = barcodeData
                 THEN [liveDetectedBarcodes[i] EXCEPT !.ocrText = bestOcrLine]
                 ELSE liveDetectedBarcodes[i]]
  /\ ocrInFlight' = FALSE
  /\ ocrCalls' = Tail(ocrCalls)
  /\ UNCHANGED <<scannedBarcodes, scannedBarcodesRef, liveDetectedBarcodesRef,
                 lastLiveScanAt, processedNow, lastOcrCaptureAt, ocrAttempted, clock>>
  /\ UNCHANGED <<appStateVars, fnVars, indexWrites, savedTwice>>

\* mutant: a capture that fails keeps the flag
runOcrForBarcodeFailedHoldingFlag ==
  /\ ocrCalls # <<>>
  /\ ocrCalls' = Tail(ocrCalls)
  /\ UNCHANGED <<scannedBarcodes, liveDetectedBarcodes, scannedBarcodesRef,
                 liveDetectedBarcodesRef, lastLiveScanAt, processedNow,
                 ocrInFlight, lastOcrCaptureAt, ocrAttempted, clock>>
  /\ UNCHANGED <<appStateVars, fnVars, indexWrites, savedTwice>>

\* the photo has no uri, or takePictureAsync or extractTextFromImage rejected
runOcrForBarcodeFailed ==
  /\ ocrCalls # <<>>
  /\ ocrInFlight' = FALSE
  /\ ocrCalls' = Tail(ocrCalls)
  /\ UNCHANGED <<scannedBarcodes, liveDetectedBarcodes, scannedBarcodesRef,
                 liveDetectedBarcodesRef, lastLiveScanAt, processedNow, lastOcrCaptureAt,
                 ocrAttempted, clock>>
  /\ UNCHANGED <<appStateVars, fnVars, indexWrites, savedTwice>>

\* the cooldown check of handleLiveBarcodeScanned
pastCooldown(data) == clock - lastLiveScanAt[data] >= LIVE_SCAN_COOLDOWN_MS

\* onBarcodeScanned past its cooldown check; the re-render it schedules is a
\* later step
liveBarcodeScanned(data) ==
  /\ pastCooldown(data)
  /\ LET normalizedData == valueKey(data)
         duplicateInSaved ==
           \E i \in DOMAIN scannedBarcodesRef :
             normalizedData \in extractCandidateValues(scannedBarcodesRef[i])
         duplicateInLive ==
           \E i \in DOMAIN liveDetectedBarcodesRef :
             normalizedData \in extractCandidateValues(liveDetectedBarcodesRef[i])
     IN IF duplicateInSaved \/ duplicateInLive
        THEN UNCHANGED <<liveDetectedBarcodes, lastLiveScanAt, ocrAttempted,
                         ocrInFlight, lastOcrCaptureAt, ocrCalls>>
        ELSE /\ Len(liveDetectedBarcodes) < MaxLive
             /\ lastLiveScanAt' = [lastLiveScanAt EXCEPT ![data] = clock]
             /\ liveDetectedBarcodes' =
                  Append(liveDetectedBarcodes,
                         [data |-> data, ocrText |-> <<>>, selected |-> TRUE])
             /\ IF data \notin ocrAttempted
                THEN /\ ocrAttempted' = ocrAttempted \cup {data}
                     /\ runOcrForBarcode(data)
                ELSE UNCHANGED <<ocrAttempted, ocrInFlight, lastOcrCaptureAt,
                                 ocrCalls>>
  /\ UNCHANGED <<scannedBarcodes, scannedBarcodesRef, liveDetectedBarcodesRef,
                 clock>>
  /\ UNCHANGED <<appStateVars, fnVars, indexWrites, savedTwice>>

handleLiveBarcodeScanned(data) ==
  /\ liveBarcodeScanned(data)
  /\ UNCHANGED processedNow

\* the same event, observed: processedNow tells for each payload whether no
\* event, one event or more than one got past the cooldown check at the
\* current time, since the detected list was last cleared
handleLiveBarcodeScannedObserved(data) ==
  /\ liveBarcodeScanned(data)
  /\ processedNow' =
       [processedNow EXCEPT
          ![data] = IF processedNow[data] = "no" THEN "once" ELSE "again"]

\* handleSaveDetected comparing every entry with the saved values only
RECURSIVE barcodesToAddAgainstSaved(_, _, _)
barcodesToAddAgainstSaved(list, i, existingValues) ==
  IF i > Len(list) THEN <<>>
  ELSE LET barcode == list[i]
           candidateValues == extractCandidateValues(barcode)
       IN IF ~barcode.selected \/ candidateValues \cap existingValues # {}
          THEN barcodesToAddAgainstSaved(list, i + 1, existingValues)
          ELSE <<[data |-> barcode.data, ocrText |-> barcode.ocrText]>>
                 \o barcodesToAddAgainstSaved(list, i + 1, existingValues)

RECURSIVE barcodesToAdd(_, _, _)
barcodesToAdd(list, i, existingValues) ==
  IF i > Len(list) THEN <<>>
  ELSE LET barcode == list[i]
           candidateValues == extractCandidateValues(barcode)
       IN IF ~barcode.selected \/ candidateValues \cap existingValues # {}
          THEN barcodesToAdd(list, i + 1, existingValues)
          ELSE <<[data |-> barcode.data, ocrText |-> barcode.ocrText]>>
                 \o barcodesToAdd(list, i + 1,
                                  existingValues \cup candidateValues)

existingValuesOf(list) ==
  UNION {extractCandidateValues(list[i]) : i \in DOMAIN list}

\* computed at render: the Save button is disabled without it
barcodeHasNewDetectedToSave ==
  \E i \in DOMAIN liveDetectedBarcodesRef :
    /\ liveDetectedBarcodesRef[i].selected
    /\ \A j \in DOMAIN scannedBarcodesRef :
         ~sharesValue(scannedBarcodesRef[j],
                      extractCandidateValues(liveDetectedBarcodesRef[i]))

\* handleSaveDetected of the barcode scanner, pressed on the rendered screen
barcodeHandleSaveDetected ==
  /\ barcodeHasNewDetectedToSave
  /\ LET toAdd == barcodesToAdd(liveDetectedBarcodesRef, 1,
                                existingValuesOf(scannedBarcodesRef))
     IN scannedBarcodes' = scannedBarcodes \o toAdd
  /\ UNCHANGED liveDetectedBarcodes
  /\ barcodeRendered
  /\ UNCHANGED <<lastLiveScanAt, processedNow, ocrInFlight, lastOcrCaptureAt, ocrAttempted,
                 ocrCalls, clock>>
  /\ UNCHANGED <<appStateVars, fnVars, indexWrites, savedTwice>>

barcodeClearDetected ==
  /\ liveDetectedBarcodes' = <<>>
  /\ lastLiveScanAt' = [p \in Payloads |-> 0]
  /\ processedNow' = [p \in Payloads |-> "no"]
  /\ ocrAttempted' = {}
  /\ UNCHANGED scannedBarcodes
  /\ barcodeRendered
  /\ UNCHANGED <<ocrInFlight, lastOcrCaptureAt, ocrCalls, clock>>
  /\ UNCHANGED <<appStateVars, fnVars, indexWrites, savedTwice>>

clearList ==
  /\ scannedBarcodes' = <<>>
  /\ ocrAttempted' = {}
  /\ UNCHANGED liveDetectedBarcodes
  /\ barcodeRendered
  /\ UNCHANGED <<lastLiveScanAt, processedNow, ocrInFlight, lastOcrCaptureAt, ocrCalls, clock>>
  /\ UNCHANGED <<appStateVars, fnVars, indexWrites, savedTwice>>

\* the checkbox of the rendered entry i, disabled once its values are saved
barcodeToggleDetectedSelection(i) ==
  /\ i \in DOMAIN liveDetectedBarcodesRef
  /\ LET data == liveDetectedBarcodesRef[i].data
         target ==
           liveDetectedBarcodesRef[
             CHOOSE j \in DOMAIN liveDetectedBarcodesRef :
               /\ liveDetectedBarcodesRef[j].data = data
               /\ \A k \in 1..(j - 1) : liveDetectedBarcodesRef[k].data # data]
         valuesSaved(entry) ==
           \E j \in DOMAIN scannedBarcodesRef :
             sharesValue(scannedBarcodesRef[j], extractCandidateValues(entry))
     IN /\ ~valuesSaved(liveDetectedBarcodesRef[i])
        /\ ~valuesSaved(target)
        /\ liveDetectedBarcodes' =
             [j \in DOMAIN liveDetectedBarcodes |->
               IF liveDetectedBarcodes[j].data = data
               THEN [liveDetectedBarcodes[j] EXCEPT
                       !.selected = ~liveDetectedBarcodes[j].selected]
               ELSE liveDetectedBarcodes[j]]
  /\ UNCHANGED scannedBarcodes
  /\ barcodeRendered
  /\ UNCHANGED <<lastLiveScanAt, processedNow, ocrInFlight, lastOcrCaptureAt, ocrAttempted,
                 ocrCalls, clock>>
  /\ UNCHANGED <<appStateVars, fnVars, indexWrites, savedTwice>>

\* onClose unmounts the scanner; opened again, it starts from its initial state
closeBarcodeScanner ==
  /\ mountBarcodeScanner
  /\ UNCHANGED clock
  /\ UNCHANGED <<appStateVars, fnVars, indexWrites, savedTwice>>

\* Date.now() advances
timePasses ==
  /\ clock < StartMs + MaxTicks * LIVE_SCAN_COOLDOWN_MS
  /\ clock' = clock + LIVE_SCAN_COOLDOWN_MS
  /\ processedNow' = [p \in Payloads |-> "no"]
  /\ UNCHANGED <<scannedBarcodes, liveDetectedBarcodes, scannedBarcodesRef,
                 liveDetectedBarcodesRef, lastLiveScanAt, ocrInFlight,
                 lastOcrCaptureAt, ocrAttempted, ocrCalls>>
  /\ UNCHANGED <<appStateVars, fnVars, indexWrites, savedTwice>>

\* ------------------------------------------------------- specifications
scannerStep(outputs) ==
  \/ handleCapture
  \/ handleRetry
  \/ handleAnalyze
  \/ handleAnalyzeResolved(outputs)
  \/ handleAnalyzeRejected
  \/ \E i \in DOMAIN detectedTexts : toggleDetectedSelection(detectedTexts[i].text)
  \/ handleSaveDetected
  \/ clearDetected
  \/ handleReanalyze
  \/ \E oldText \in editedTexts, newText \in EditTexts :
       handleEditDetectedText(oldText, newText)

\* The capture session alone: a runtime whose FileSystem.documentDirectory is
\* null, where saveScan returns null before it touches the store.
InitSession == Init /\ ~documentDirectory

Next ==
  \/ scannerStep(RecognizerOutputs)
  \/ loadScans
  \/ handleCloseScanner
  \/ \E tab \in {"scanner", "data", "settings"} : onTabChange(tab)

Spec == InitSession /\ [][Next]_vars

\* The whole app on a device with a document directory: scanner, AppContent
\* and SavedScansProvider together, over the scenes of AppOutputs.  A due
\* effect runs before any other event is handled.
InitApp == Init /\ documentDirectory

NextApp ==
  \/ /\ ~effectPending
     /\ \/ scannerStep(AppOutputs)
        \/ saveScanResolved
        \/ saveScanRejected
        \/ loadScans
        \/ handleCloseScanner
        \/ \E tab \in {"scanner", "data", "settings"} : onTabChange(tab)
        \/ \E i \in DOMAIN scans : openScanner(scans[i])
        \/ \E i \in DOMAIN scans : handleDelete(scans[i])
  \/ initialSessionEffect

SpecApp == InitApp /\ [][NextApp]_vars

\* The provider alone, its operations called with arguments of StoreEntries
\* and StoreSavedTexts while the Data tab shows.
InitStore == InitOn("data") /\ isOcrSupported /\ InitBarcode /\ InitFn

NextStore ==
  \/ saveScanCalled
  \/ saveScanResolved
  \/ saveScanRejected
  \/ deleteScanCalled
  \/ loadScans

SpecStore == InitStore /\ [][NextStore]_vars

\* The capture session fed one recognized line at a time, over FilterLines.
NextFilter ==
  \/ handleCapture
  \/ handleRetry
  \/ handleAnalyze
  \/ handleAnalyzeResolved(FilterOutputs)
  \/ handleAnalyzeRejected
  \/ clearDetected
  \/ handleReanalyze

SpecFilter == InitSession /\ [][NextFilter]_vars

\* The capture session with onSave called at any time the panel shows.
NextSave ==
  \/ Next
  \/ handleSaveDetectedCalled

SpecSave == InitSession /\ [][NextSave]_vars

\* The same, noting the onSave calls that follow one another.
NextResave ==
  \/ Next
  \/ handleSaveDetectedObserved

SpecResave == InitSession /\ [][NextResave]_vars

\* The two normalizations applied to the strings of Strings.
normalizeTextApplied ==
  /\ returned = NoResult
  /\ returned' = [fn |-> "normalizeText", result |-> normalizeText(argument)]
  /\ UNCHANGED <<appStateVars, barcodeVars, argument, indexWrites, savedTwice>>

normalizeValueApplied ==
  /\ returned = NoResult
  /\ returned' = [fn |-> "normalizeValue", result |-> normalizeValue(argument)]
  /\ UNCHANGED <<appStateVars, barcodeVars, argument, indexWrites, savedTwice>>

InitNormalize ==
  /\ InitOn("scanner") /\ isOcrSupported /\ ~documentDirectory
  /\ InitBarcode
  /\ argument \in Strings
  /\ returned = NoResult

NextNormalize ==
  \/ normalizeTextApplied
  \/ normalizeValueApplied

SpecNormalize == InitNormalize /\ [][NextNormalize]_vars

\* the barcode scanner with OCR corroboration, mounted
InitBarcodeScanner ==
  /\ InitOn("scanner") /\ ~documentDirectory
  /\ InitBarcode
  /\ InitFn

NextBarcode ==
  \/ \E data \in Payloads : handleLiveBarcodeScanned(data)
  \/ \E lines \in CorroborationOutputs : runOcrForBarcodeResolved(lines)
  \/ runOcrForBarcodeFailed
  \/ barcodeRender
  \/ barcodeHandleSaveDetected
  \/ \E i \in 1..MaxLive : barcodeToggleDetectedSelection(i)
  \/ barcodeClearDetected
  \/ clearList
  \/ closeBarcodeScanner
  \/ timePasses

SpecBarcode == InitBarcodeScanner /\ [][NextBarcode]_vars

\* The barcode scanner with its detection events observed.  Selection is not
\* read by the detection handler, so the checkboxes are left alone.
NextRate ==
  \/ \E data \in Payloads : handleLiveBarcodeScannedObserved(data)
  \/ \E lines \in CorroborationOutputs : runOcrForBarcodeResolved(lines)
  \/ runOcrForBarcodeFailed
  \/ barcodeRender
  \/ barcodeHandleSaveDetected
  \/ barcodeClearDetected
  \/ clearList
  \/ closeBarcodeScanner
  \/ timePasses

SpecRate == InitBarcodeScanner /\ [][NextRate]_vars

\* The provider with its index writes in flight and landing in any order, on
\* a device that holds a session of an earlier run.  In SpecIndex the
\* mount-time loadScans has resolved and any session may be deleted.  In
\* SpecLoad it is still pending, AsyncStorage.getItem resolves with what is
\* stored, and the session of the earlier run is never the one deleted.
InitIndexOn(pending) ==
  /\ InitStored("data", <<PriorScan>>, PriorImages, 2, pending)
  /\ isOcrSupported /\ documentDirectory
  /\ InitBarcode
  /\ InitFn

NextIndex ==
  \/ saveScanQueued
  \/ saveScanCopied
  \/ saveScanRejected
  \/ deleteScanQueued(1..(nextId - 1))
  \/ setItemResolved

SpecIndex == InitIndexOn(FALSE) /\ [][NextIndex]_vars

NextLoad ==
  \/ saveScanQueued
  \/ saveScanCopied
  \/ saveScanRejected
  \/ deleteScanQueued((1..(nextId - 1)) \ {PriorScan.id})
  \/ setItemResolved
  \/ loadScansSettled(TRUE)

SpecLoad == InitIndexOn(TRUE) /\ [][NextLoad]_vars

\* ------------------------------------------------------------- properties
IsPrefix(s, t) == Len(s) <= Len(t) /\ SubSeq(t, 1, Len(s)) = s

distinctKeys(texts) ==
  \A i, j \in DOMAIN texts : i # j => keyOf(texts[i]) # keyOf(texts[j])

\* C1: in a session that started with no accepted values, savedTexts never
\* holds two entries with the same normalizeText key, whatever sequence of
\* capture, analyze, toggle, edit, save, clear, reanalyze and retake ran.
NoDuplicateAcceptance == distinctKeys(savedTexts)

\* C1 witness: a save has run over two selected candidates of one key
SavedOverCollidingCandidates ==
  /\ savedTexts # <<>>
  /\ \E i, j \in DOMAIN detectedTexts :
       /\ i < j
       /\ detectedTexts[i].selected /\ detectedTexts[j].selected
       /\ keyOf(detectedTexts[i].text) = keyOf(detectedTexts[j].text)
       /\ keyOf(detectedTexts[i].text) \in normalizedKeys(savedTexts)

\* C2: after every operation no two candidates of detectedTexts normalize
\* to the same key.
NoDuplicateDetected == distinctKeys(entryTexts(detectedTexts))

\* C3: when a pending handleAnalyze whose capture was retaken or reanalyzed
\* in the meantime resumes (result or failure), it leaves detectedTexts,
\* hasAnalyzedCurrentCapture, isAnalyzing and analysisError as they were.
StaleResultDropped ==
  [][\A i \in DOMAIN inFlight :
       (/\ inFlight[i].stale
        /\ \/ analyzeReject(i)
           \/ \E lines \in RecognizerOutputs : analyzeResolve(i, lines))
       => UNCHANGED <<detectedTexts, hasAnalyzedCurrentCapture, isAnalyzing,
                      analysisError>>]_vars

\* C4: at most one recognizer invocation is in flight at any time.
AtMostOneRecognizerCall == Len(inFlight) <= 1

\* C5: while the scanner shows one session, every step (handler, analysis or
\* persistence outcome, re-render) leaves the old savedTexts as a prefix of
\* the new one, in a session reopened from a saved scan too.
AcceptedValuesNeverLost ==
  [][(isShowingScanner /\ isShowingScanner' /\ scannerSession' = scannerSession)
       => IsPrefix(savedTexts, savedTexts')]_vars

\* C6: in a session not opened from a saved scan, all saveScan calls of one
\* capture carry one id, and scans holds at most one record of the session.
OneIdentityPerSession ==
  scannerSession = NoSession =>
    /\ Cardinality(sessionIds) <= 1
    /\ Cardinality({i \in DOMAIN scans : scans[i].id \in sessionIds}) <= 1

uniqueIds(list) ==
  \A i, j \in DOMAIN list : i # j => list[i].id # list[j].id

\* C7: a saveScan with an existingScan puts at the head of scans a record
\* with that scan's id and createdAt, a record that takes the id of a listed
\* scan takes its createdAt, and scans never lists one id twice.
UpdateInPlace ==
  /\ []uniqueIds(scans)
  /\ [][/\ \A i \in DOMAIN saveCalls :
             (saveCalls[i].existingScan # NoSession /\ saveScanResume(i, TRUE))
             => /\ scans'[1].id = saveCalls[i].existingScan.id
                /\ scans'[1].createdAt = saveCalls[i].existingScan.createdAt
        /\ (now' = now + 1 /\ saveCalls' = saveCalls)
             => \E j \in DOMAIN scans :
                  /\ scans'[1].id = scans[j].id
                  /\ scans'[1].createdAt = scans[j].createdAt
        /\ \A j \in DOMAIN scans :
             (scans' # <<>> /\ scans'[1].id = scans[j].id)
             => scans'[1].createdAt = scans[j].createdAt]_vars

\* C7 witness: two saveScan calls have completed, the second one an update
\* of the scan the first one created, with other contents
ScanUpdatedInPlace ==
  /\ now = 3 /\ nextId = 2 /\ saveCalls = <<>>
  /\ Len(scans) = 1
  /\ scans[1].id = 1 /\ scans[1].createdAt = 1
  /\ stored # <<>> /\ stored[1].id = 1
  /\ stored[1].savedTexts # scans[1].savedTexts

\* the texts handleSaveDetected has to accept: the selected candidates whose
\* key is not accepted yet, the first of each key, in detected order
newlyAccepted ==
  LET key == [i \in DOMAIN detectedTexts |-> keyOf(detectedTexts[i].text)]
      accepted == {keyOf(savedTexts[k]) : k \in DOMAIN savedTexts}
      isNew(i) ==
        /\ detectedTexts[i].selected
        /\ key[i] \notin accepted
        /\ \A j \in 1..(i - 1) : detectedTexts[j].selected => key[j] # key[i]
      indices == SelectSeq([i \in DOMAIN detectedTexts |-> i], isNew)
  IN  [k \in DOMAIN indices |-> detectedTexts[indices[k]].text]

\* C8: handleSaveDetected appends to savedTexts exactly the selected
\* candidates whose key is not accepted yet (the first of each key, in
\* detected order) and reports exactly that suffix through onItemsSaved.
SaveAppendsNewlyAccepted ==
  [][(UNCHANGED <<detectedTexts, mode, inFlight, appVars>> /\ handleSaveDetected) =>
       /\ savedTexts' = savedTexts \o newlyAccepted
       /\ itemsSaved' = newlyAccepted]_vars

\* C8 witness: a save has appended fewer texts than are listed, after
\* values accepted earlier
SavedSuffixReported ==
  /\ itemsSaved # NoCall
  /\ Len(itemsSaved) < Len(detectedTexts)
  /\ Len(itemsSaved) < Len(savedTexts)
  /\ SubSeq(savedTexts, Len(savedTexts) - Len(itemsSaved) + 1, Len(savedTexts))
       = itemsSaved

AnalyzeMerge ==
  [][\A i \in DOMAIN inFlight, lines \in RecognizerOutputs :
       analyzeResolve(i, lines) =>
         /\ IsPrefix(detectedTexts, detectedTexts')
         /\ \A k \in (Len(detectedTexts) + 1)..Len(detectedTexts') :
              /\ detectedTexts'[k].selected
              /\ \A j \in DOMAIN savedTexts :
                   keyOf(detectedTexts'[k].text) # keyOf(savedTexts[j])
         /\ distinctKeys(entryTexts(detectedTexts'))
         /\ (lines = MergeScenario /\ detectedTexts = <<>> /\ savedTexts = <<>>)
              => detectedTexts' = <<[text |-> ValueLine, selected |-> TRUE]>>]_vars

\* the Candidate Filter as the specification words it
NoiseToken == <<"N","O">>

SerialToken == <<"S","E","R","I","A","L">>

NumberToken == <<"n","u","m","b","e","r">>

rejectedByFilter(line) ==
  \/ trim(line) = <<>>
  \/ Len(normalizeText(trim(line))) < 3
  \/ normalizeText(trim(line)) = NoiseToken
  \/ includes(normalizeText(trim(line)), SerialToken)
  \/ includes(toLowerCase(trim(line)), NumberToken)

\* C11: handleAnalyze drops a recognized line exactly when it is empty after
\* trimming, or its normalized form is shorter than 3, equals "NO" or
\* contains "SERIAL", or its lower-cased text contains "number"; "No.",
\* "Serial Number: 12345" and "ab" are dropped and "SN-88213" is kept.
CandidateFilter ==
  [][\A i \in DOMAIN inFlight, line \in FilterLines :
       (/\ inFlight[i].detectedTexts = <<>> /\ inFlight[i].savedTexts = <<>>
        /\ detectedTexts = <<>>
        /\ analyzeResolve(i, <<line>>))
       => /\ (detectedTexts' = <<>>) <=> rejectedByFilter(line)
          /\ line \in {NoLine, SerialNumberValueLine, ShortLine}
               => detectedTexts' = <<>>
          /\ line = SnLine
               => detectedTexts' = <<[text |-> SnLine, selected |-> TRUE]>>]_vars

\* C12: toggleDetectedSelection on a candidate whose key is accepted leaves
\* detectedTexts and savedTexts as they are; on another candidate it flips
\* the selected flag of the candidates of that key and leaves every text,
\* the order and length of detectedTexts, every other flag and savedTexts
\* unchanged.
ToggleFrame ==
  [][(savedTexts' = savedTexts /\ detectedTexts' = detectedTexts)
     \/ inFlight' # inFlight
     \/ LET key == [j \in DOMAIN detectedTexts |->
                      keyOf(detectedTexts[j].text)]
            accepted == {keyOf(savedTexts[k]) : k \in DOMAIN savedTexts}
        IN  \A c \in DOMAIN detectedTexts :
              toggleDetectedSelection(detectedTexts[c].text) =>
                /\ savedTexts' = savedTexts
                /\ entryTexts(detectedTexts') = entryTexts(detectedTexts)
                /\ key[c] \notin accepted
                /\ \A j \in DOMAIN detectedTexts :
                     detectedTexts'[j].selected =
                       IF key[j] = key[c] THEN ~detectedTexts[j].selected
                       ELSE detectedTexts[j].selected]_vars

\* C12 witness: one candidate has been toggled off next to a candidate whose
\* key is accepted and which is still selected
ToggledNextToAccepted ==
  \E c, d \in DOMAIN detectedTexts :
    /\ ~detectedTexts[c].selected
    /\ ~alreadySaved(detectedTexts[c].text, savedTexts)
    /\ detectedTexts[d].selected
    /\ alreadySaved(detectedTexts[d].text, savedTexts)

\* C13: a saveScan that fails (no document directory, a file-system call
\* throws, or the AsyncStorage write of the index is rejected) leaves the
\* stored index and the image files as they were.
CommitAllOrNothing ==
  [][(\/ saveResult' = ReturnedNull
      \/ \E i \in DOMAIN saveCalls : saveScanResume(i, FALSE)
      \/ (saveResult' # NoCall /\ stored' # scans'))
       => (stored' = stored /\ images' = images)]_vars

\* C14: when the image copy fails or the AsyncStorage write of the index is
\* rejected, saveScan returns null, and detectedTexts and savedTexts of the
\* scanner stay as handleSaveDetected left them.
PersistenceFailureReported ==
  [][(\/ \E i \in DOMAIN saveCalls : saveScanResume(i, FALSE)
      \/ (saveResult' # NoCall /\ stored' # scans'))
       => /\ saveResult' = ReturnedNull
          /\ (\E i \in DOMAIN saveCalls : saveCalls' = RemoveAt(saveCalls, i))
               => (detectedTexts' = detectedTexts /\ savedTexts' = savedTexts)]_vars

\* the session shows an analyzed capture, with no analysis running
Analyzed(m, analyzed, analyzing) == m = "analyze" /\ analyzed /\ ~analyzing

\* C15: when the recognizer call of a handleAnalyze that no retake or
\* reanalyze has overtaken throws, detectedTexts and savedTexts stay as they
\* are, analysisError becomes the OCR-failed message and the session is
\* Analyzed with isAnalyzing false.
RecognitionFailureKeepsState ==
  [][\A i \in DOMAIN inFlight :
       (~inFlight[i].stale /\ analyzeReject(i)) =>
         /\ detectedTexts' = detectedTexts
         /\ savedTexts' = savedTexts
         /\ analysisError' = OcrFailed
         /\ Analyzed(mode', hasAnalyzedCurrentCapture', isAnalyzing')]_vars

\* C15 witness: a failed analysis has left candidates and accepted values
RecognitionFailedOverCandidates ==
  /\ analysisError = OcrFailed
  /\ Analyzed(mode, hasAnalyzedCurrentCapture, isAnalyzing)
  /\ inFlight = <<>>
  /\ detectedTexts # <<>>
  /\ savedTexts # <<>>

\* C16: when isOcrSupported is false, handleAnalyze starts no recognizer
\* call and never sets isAnalyzing, sets analysisError to the unsupported
\* message, leaves detectedTexts and savedTexts alone and ends Analyzed.
CapabilityUnavailable ==
  /\ [](~isOcrSupported => (inFlight = <<>> /\ ~isAnalyzing /\ analyses = 0))
  /\ [][(~isOcrSupported /\ handleAnalyze) =>
          /\ analysisError' = OcrUnsupported
          /\ inFlight' = inFlight /\ analyses' = analyses
          /\ detectedTexts' = detectedTexts
          /\ savedTexts' = savedTexts
          /\ Analyzed(mode', hasAnalyzedCurrentCapture', isAnalyzing')]_vars

\* C16 witness: Analyze was pressed on a runtime without OCR
UnsupportedReported ==
  /\ ~isOcrSupported
  /\ analysisError = OcrUnsupported
  /\ Analyzed(mode, hasAnalyzedCurrentCapture, isAnalyzing)
  /\ capturedUri = PhotoUri

\* no line of the output passes the filter with a key new to the session as
\* the call found it
rejectedLines == {l \in AllLines : rejectedByFilter(l)}

noSurvivor(known, lines) ==
  \A k \in DOMAIN lines :
    lines[k] \in rejectedLines \/ keyOf(trimOf(lines[k])) \in known

\* C17: when the recognizer answers and no line survives the filter and the
\* deduplication, handleAnalyze sets analysisError to the nothing-new
\* message, which differs from the OCR-failed and unsupported messages (and
\* from no error), leaves detectedTexts unchanged and ends Analyzed.
EmptyResultReported ==
  [][\A i \in DOMAIN inFlight :
       (~inFlight[i].stale /\ inFlight' = RemoveAt(inFlight, i)) =>
         LET known == normalizedKeys(entryTexts(inFlight[i].detectedTexts))
                        \cup normalizedKeys(inFlight[i].savedTexts)
             reported ==
               /\ analysisError' = NoNewText
               /\ NoNewText \notin {OcrFailed, OcrUnsupported, NoError}
               /\ detectedTexts' = detectedTexts
               /\ Analyzed(mode', hasAnalyzedCurrentCapture', isAnalyzing')
         IN  reported \/ \A lines \in RecognizerOutputs :
                           ~(noSurvivor(known, lines) /\ analyzeResolve(i, lines))]_vars

\* C17 witness: an analysis has found nothing new next to listed candidates
NothingNewOverCandidates ==
  /\ analysisError = NoNewText
  /\ Analyzed(mode, hasAnalyzedCurrentCapture, isAnalyzing)
  /\ inFlight = <<>>
  /\ detectedTexts # <<>>

\* C18: when the recognizer call of a handleAnalyze that no retake or
\* reanalyze has overtaken completes, with lines or with a failure, the
\* session is Analyzed with isAnalyzing false; and isAnalyzing is never true
\* without a recognizer call pending.
AnalyzeEndsAnalyzed ==
  /\ [](isAnalyzing => inFlight # <<>>)
  /\ [][\A i \in DOMAIN inFlight :
          (/\ ~inFlight[i].stale
           /\ inFlight' = RemoveAt(inFlight, i)
           /\ \/ analyzeReject(i)
              \/ \E lines \in RecognizerOutputs : analyzeResolve(i, lines))
          => Analyzed(mode', hasAnalyzedCurrentCapture', isAnalyzing')]_vars

\* C18 witness: the second analysis of a session has completed
SecondAnalysisCompleted ==
  /\ analyses = 2 /\ inFlight = <<>>
  /\ Analyzed(mode, hasAnalyzedCurrentCapture, isAnalyzing)
  /\ capturedUri = PhotoUri

\* C19: handleRetry drops the captured image and every candidate, and a
\* handleCapture that took a photo leaves the session with the photo, not
\* analyzed, with no candidates and no error, whatever detectedTexts held.
NoCarryOver ==
  [][/\ handleRetry => (capturedUri' = NoUri /\ detectedTexts' = <<>>)
     /\ (handleCapture /\ mode' = "analyze") =>
          /\ capturedUri' = PhotoUri
          /\ ~hasAnalyzedCurrentCapture'
          /\ detectedTexts' = <<>>
          /\ analysisError' = NoError]_vars

\* C20: clearDetected empties detectedTexts and leaves savedTexts, the
\* captured image and the Analyzed state as they are.
ClearFrame ==
  [][clearDetected =>
       /\ detectedTexts' = <<>>
       /\ savedTexts' = savedTexts
       /\ capturedUri' = capturedUri
       /\ mode' = mode
       /\ hasAnalyzedCurrentCapture' = hasAnalyzedCurrentCapture
       /\ isAnalyzing' = isAnalyzing]_vars

\* C20 witness: the candidates of the one analysis were cleared after a save
ClearedAfterSave ==
  /\ analyses = 1 /\ inFlight = <<>>
  /\ Analyzed(mode, hasAnalyzedCurrentCapture, isAnalyzing)
  /\ capturedUri = PhotoUri
  /\ detectedTexts = <<>>
  /\ savedTexts # <<>>
  /\ analysisError = NoError

\* C21: handleReanalyze empties detectedTexts, clears analysisError and
\* leaves the session with its image and hasAnalyzedCurrentCapture false
\* (captured, not analyzed); savedTexts and capturedUri stay as they are.
ReanalyzeFrame ==
  [][handleReanalyze =>
       /\ detectedTexts' = <<>>
       /\ analysisError' = NoError
       /\ mode' = "analyze"
       /\ capturedUri' # NoUri
       /\ ~hasAnalyzedCurrentCapture'
       /\ savedTexts' = savedTexts
       /\ capturedUri' = capturedUri]_vars

\* C21 witness: the capture is not analyzed any more although values were
\* accepted from it, which only handleReanalyze brings about
ReanalyzedAfterSave ==
  /\ mode = "analyze" /\ ~hasAnalyzedCurrentCapture /\ ~isAnalyzing
  /\ capturedUri = PhotoUri
  /\ detectedTexts = <<>>
  /\ savedTexts # <<>>
  /\ analysisError = NoError
  /\ analyses = 1 /\ inFlight = <<>>

\* C22: handleEditDetectedText gives newText to the entries whose key is
\* that of oldText and leaves their selected flag, every other entry, the
\* length and order of detectedTexts, and savedTexts as they are; when no
\* entry has that key the session state does not change at all.
EditFrame ==
  [][\A oldText \in editedTexts, newText \in EditTexts :
       handleEditDetectedText(oldText, newText) =>
         /\ Len(detectedTexts') = Len(detectedTexts)
         /\ \A j \in DOMAIN detectedTexts :
              /\ detectedTexts'[j].selected = detectedTexts[j].selected
              /\ detectedTexts'[j].text =
                   IF keyOf(detectedTexts[j].text) = keyOf(oldText)
                   THEN newText ELSE detectedTexts[j].text
         /\ savedTexts' = savedTexts
         /\ (keyOf(oldText) \notin normalizedKeys(entryTexts(detectedTexts)))
              => scannerVars' = scannerVars]_vars

\* C22 witness: of the two candidates of the one analysis, the second was
\* deselected and its text edited to the key of the first
EditedInPlace ==
  /\ analyses = 1 /\ inFlight = <<>>
  /\ Len(detectedTexts) = 2
  /\ detectedTexts[1] = [text |-> ValueLine, selected |-> TRUE]
  /\ detectedTexts[2] = [text |-> trim(ValueLineVariant), selected |-> FALSE]

\* C23: handleSaveDetected hands a snapshot to onSaveSession, and so to
\* saveScan, exactly when an image is captured and savedTexts after the save
\* or detectedTexts is not empty; the snapshot holds the image, detectedTexts
\* and the savedTexts of after the save.
SnapshotEmitted ==
  [][handleSaveDetectedCalled =>
       /\ (sessionSaved' # NoSnapshot) <=>
            (capturedUri # NoUri /\ (savedTexts' # <<>> \/ detectedTexts # <<>>))
       /\ (saveResult' # NoCall) <=> (sessionSaved' # NoSnapshot)
       /\ (sessionSaved' # NoSnapshot) =>
            sessionSaved' = [imageUri |-> capturedUri,
                             detectedEntries |-> detectedTexts,
                             savedTexts |-> savedTexts']]_vars

\* C23 witness: a save that accepted nothing new has handed over a snapshot
\* with accepted values and no candidates (they were cleared)
SnapshotWithoutCandidates ==
  /\ sessionSaved # NoSnapshot
  /\ itemsSaved = NoCall
  /\ sessionSaved.detectedEntries = <<>>
  /\ sessionSaved.savedTexts # <<>>
  /\ sessionSaved.savedTexts = savedTexts

\* C24: a handleSaveDetected that accepts new values calls onItemsSaved once,
\* with exactly those values in order; one that accepts none does not call it.
NotifiedOfNewValues ==
  [][handleSaveDetectedCalled =>
       itemsSaved' = IF newlyAccepted # <<>> THEN newlyAccepted ELSE NoCall]_vars

\* C24 witness: a save over two selected candidates of one key has reported
\* one value
OneValueForTwoCandidates ==
  /\ itemsSaved # NoCall /\ Len(itemsSaved) = 1
  /\ Len(detectedTexts) = 2
  /\ detectedTexts[1].selected /\ detectedTexts[2].selected
  /\ keyOf(detectedTexts[1].text) = keyOf(detectedTexts[2].text)
  /\ savedTexts = itemsSaved

\* the first occurrence of every non-empty key, in the order of the list
firstOccurrences(texts) ==
  LET isFirst(i) ==
        /\ keyOf(texts[i]) # <<>>
        /\ \A j \in 1..(i - 1) : keyOf(texts[j]) # keyOf(texts[i])
      indices == SelectSeq([i \in DOMAIN texts |-> i], isFirst)
  IN  [k \in DOMAIN indices |-> texts[indices[k]]]

savedTextsDistinct(list) ==
  \A i \in DOMAIN list : distinctKeys(list[i].savedTexts)

\* C25: no record in scans, in the stored index or about to be written holds
\* two savedTexts of one key, and the record a saveScan call builds holds the
\* first occurrence of each key of the list it was passed, in order.
RecordsDeduplicated ==
  /\ [](savedTextsDistinct(scans) /\ savedTextsDistinct(stored)
          /\ savedTextsDistinct(saveCalls))
  /\ [][(now' = now + 1) =>
          \A existingScan \in {NoSession} \cup {scans[i] : i \in DOMAIN scans},
             detectedEntries \in StoreEntries, saved \in StoreSavedTexts,
             sourceImageUri \in {PhotoUri} \cup {scans[i].imageUri : i \in DOMAIN scans} :
            saveScan(sourceImageUri, detectedEntries, saved, existingScan) =>
              LET record == IF saveCalls' # saveCalls
                            THEN saveCalls'[Len(saveCalls')] ELSE scans'[1]
              IN  record.savedTexts = firstOccurrences(saved)]_vars

\* C25 witness: the stored index holds a record with the value and then
\* "No.", which saveScan builds only from a list that repeats the value
DuplicateDroppedFromRecord ==
  \E i \in DOMAIN stored : stored[i].savedTexts = <<ValueLine, NoLine>>

\* C26: deleteScan(id) takes the record of that id out of scans, keeps the
\* other records in their order, deletes no image but that of the record
\* (the deletion is requested; its failure is swallowed) and writes nothing
\* but the new list to the stored index; for an id that scans does not hold,
\* scans and the images stay as they are; a second deleteScan(id) finds
\* nothing to remove.
DeleteFrame ==
  [][\A id \in 1..nextId :
       (UNCHANGED <<saveCalls, now, nextId, loadPending>> /\ deleteScan(id)) =>
         LET others(sc) == sc.id # id
             removed == {scans[i].imageUri : i \in {j \in DOMAIN scans : scans[j].id = id}}
         IN  /\ scans' = SelectSeq(scans, others)
             /\ \A i \in DOMAIN scans' : scans'[i].id # id
             /\ images' \subseteq images
             /\ \A f \in images \ images' : f.uri \in removed
             /\ stored' \in {stored, scans'}
             /\ (\A i \in DOMAIN scans : scans[i].id # id)
                  => (scans' = scans /\ images' = images)
             /\ withoutId(scans', id) = scans']_vars

\* C26 witness: the first scan was deleted, and its image with it, while the
\* second scan and its image are still there (the index write of the deletion
\* was rejected, so the stored index still names the first scan)
FirstScanDeleted ==
  /\ Len(scans) = 1 /\ scans[1].id = 2
  /\ \E k \in DOMAIN stored : stored[k].id = 1
  /\ \A f \in images : f.uri # ScanUri(1)
  /\ \E f \in images : f.uri = ScanUri(2)

\* the list after the record of this id was saved: the record first, then
\* the other records in the order they had
savedFirst(list, next, id) ==
  LET others(sc) == sc.id # id
  IN  /\ next # <<>>
      /\ next[1].id = id
      /\ Tail(next) = SelectSeq(list, others)

\* C27: a saveScan that succeeds, for a new scan or for an existing one,
\* leaves its record at the head of scans and the other records behind it
\* in the order they had.
MostRecentlySavedFirst ==
  [][/\ \A i \in DOMAIN saveCalls :
          saveScanResume(i, TRUE) => savedFirst(scans, scans', saveCalls[i].id)
     /\ (now' = now + 1 /\ saveCalls' = saveCalls) =>
          \E j \in DOMAIN scans : savedFirst(scans, scans', scans[j].id)]_vars

\* C27 witness: both saveScan calls have completed, the first one last, and
\* its record is listed (and stored) before the record of the second
FirstCallSavedLast ==
  /\ saveCalls = <<>>
  /\ Len(scans) = 2
  /\ scans[1].id = 1 /\ scans[2].id = 2
  /\ stored = scans

\* C28: normalizeText and normalizeValue are idempotent: applied to their own
\* result, they return it.
NormalizationIdempotent ==
  /\ returned.fn = "normalizeText" =>
       normalizeText(returned.result) = returned.result
  /\ returned.fn = "normalizeValue" =>
       normalizeValue(returned.result) = returned.result

\* C28 witness: normalizeText has removed whitespace from a string and
\* changed the case of a letter that is left
TextNormalized ==
  /\ returned.fn = "normalizeText"
  /\ Len(argument) = 3 /\ Len(returned.result) = 2
  /\ \E i \in 1..2 : returned.result[i] = "A"

\* C29: a live barcode detection whose payload, stripped of non-alphanumeric
\* characters and upper-cased, equals an identifying key (payload or
\* corroborating text) of an accepted or already-detected item is a duplicate
\* and adds no candidate to the detected list.
DuplicateDetectionAddsNothing ==
  [][\A data \in Payloads :
       (/\ handleLiveBarcodeScanned(data)
        /\ valueKey(data) \in existingValuesOf(scannedBarcodes)
                                \cup existingValuesOf(liveDetectedBarcodes))
       => liveDetectedBarcodes' = liveDetectedBarcodes]_vars

\* C30: no two accepted entries of the barcode scanner share an identifying
\* key: the sets {normalized payload, normalized corroborating text} of any
\* two entries of scannedBarcodes are disjoint.
AcceptedKeysDisjoint ==
  \A i, j \in DOMAIN scannedBarcodes :
    i # j => extractCandidateValues(scannedBarcodes[i])
               \cap extractCandidateValues(scannedBarcodes[j]) = {}

\* C30 witness: two accepted entries, one of them with corroborating text, next
\* to a selected detection with another payload that shares a key with it and
\* was left out by the save.
SavedPastSharedKey ==
  /\ Len(scannedBarcodes) = 2
  /\ \E i \in DOMAIN scannedBarcodes, j \in DOMAIN liveDetectedBarcodes :
       /\ scannedBarcodes[i].ocrText # <<>>
       /\ liveDetectedBarcodes[j].selected
       /\ liveDetectedBarcodes[j].data # scannedBarcodes[i].data
       /\ sharesValue(liveDetectedBarcodes[j],
                      extractCandidateValues(scannedBarcodes[i]))

\* C31: between two detection events for one payload that get past the
\* cooldown check and run the dedup logic, the cooldown window has elapsed,
\* unless the detected list was cleared in between; this includes a payload
\* that is already listed or saved.  (Time advances by whole windows, so two
\* events closer than a window are two events at one value of the clock.)
RateLimitedPerPayload ==
  \A data \in Payloads : processedNow[data] # "again"

\* C32: the live detected list never holds two entries sharing an identifying
\* key, in particular never one payload twice, whatever the order of detection
\* callbacks and re-renders.
LiveKeysDisjoint ==
  \A i, j \in DOMAIN liveDetectedBarcodes :
    i # j => extractCandidateValues(liveDetectedBarcodes[i])
               \cap extractCandidateValues(liveDetectedBarcodes[j]) = {}

\* the entries of a list whose payload is not the given one and that share a
\* value with the given key set
othersSharing(list, barcodeData, values) ==
  {i \in DOMAIN list :
     list[i].data # barcodeData /\ sharesValue(list[i], values)}

\* C33: a corroborating OCR line is attached to the live candidates of the
\* payload only if the key set {payload, line} meets the key set of no saved
\* and no live item with another payload; when there is no line or such an
\* item exists, the live list is left as it was.
AttachmentGuarded ==
  [][\A lines \in CorroborationOutputs :
       (ocrCalls' # ocrCalls /\ runOcrForBarcodeResolved(lines)) =>
         LET barcodeData == Head(ocrCalls)
             line == findBestOcrLine(lines, barcodeData)
             values == {valueKey(barcodeData), valueKey(line)} \ {<<>>}
         IN IF \/ line = <<>>
               \/ othersSharing(scannedBarcodes, barcodeData, values) # {}
               \/ othersSharing(liveDetectedBarcodes, barcodeData, values) # {}
            THEN liveDetectedBarcodes' = liveDetectedBarcodes
            ELSE /\ DOMAIN liveDetectedBarcodes' = DOMAIN liveDetectedBarcodes
                 /\ \A i \in DOMAIN liveDetectedBarcodes :
                      liveDetectedBarcodes'[i] =
                        IF liveDetectedBarcodes[i].data = barcodeData
                        THEN [liveDetectedBarcodes[i] EXCEPT !.ocrText = line]
                        ELSE liveDetectedBarcodes[i]]_vars

\* C33 witness: a candidate carries a corroborating line next to a live and a
\* saved item of another payload
CorroboratedNextToOthers ==
  \E i, j \in DOMAIN liveDetectedBarcodes, k \in DOMAIN scannedBarcodes :
    /\ liveDetectedBarcodes[i].ocrText # <<>>
    /\ liveDetectedBarcodes[j].data # liveDetectedBarcodes[i].data
    /\ scannedBarcodes[k].data # liveDetectedBarcodes[i].data

IndexConverges ==
  indexWrites = <<>> => stored = scans

\* C36: a saveScan or deleteScan running while the mount-time loadScans is
\* pending removes no stored session: once the load has resolved, no save is
\* in progress and no index write is in flight, the session stored by the
\* earlier run, which was never deleted, is in the stored index and in the
\* in-memory list.
hasId(list, id) == \E i \in DOMAIN list : list[i].id = id

StoredSessionsSurvive ==
  (~loadPending /\ saveCalls = <<>> /\ indexWrites = <<>>)
    => hasId(stored, PriorScan.id) /\ hasId(scans, PriorScan.id)

\* C37: an onSave call made right after an onSave call, with nothing in
\* between, leaves savedTexts as it is and does not call onItemsSaved.
SecondSaveAddsNothing ==
  [][(savedJustNow /\ handleSaveDetectedObserved) =>
       /\ savedTexts' = savedTexts
       /\ saveToAdd(detectedTexts', savedTexts') = <<>>
       /\ itemsSaved' = NoCall]_vars

\* a second call has just run on a session with accepted values
SavedTwiceInARow ==
  /\ savedTwice /\ savedJustNow
  /\ itemsSaved = NoCall
  /\ ~hasNewDetectedToSave
  /\ savedTexts # <<>>

\* C38: in every state of the session the Selected figure of the panel is the
\* number of values the next handleSaveDetected would append, and hasNewToSave
\* holds exactly when that number is above zero.
ReadModelAgrees ==
  /\ selectedCount(detectedTexts, savedTexts)
       = Len(saveToAdd(detectedTexts, savedTexts))
  /\ hasNewDetectedToSave <=> Len(saveToAdd(detectedTexts, savedTexts)) > 0

====
